---- MODULE Spec2Model ----
(***************************************************************************)
(* Model of the limit order book and matching engine:                      *)
(*   Order          (core/order.hpp,          src/unnamed/part_006)        *)
(*   PriceLevel     (engine/price_level.hpp,  src/include/engine/...)      *)
(*   OrderBook      (engine/order_book.hpp,   same file)                   *)
(*   MatchingEngine (engine/matching_engine.hpp, src/unnamed/part_007)     *)
(*                                                                         *)
(* Orders are heap objects shared (std::shared_ptr) between a price        *)
(* level's deque and the id index, so the model keeps a heap of order      *)
(* objects addressed by handles; levels and the index hold handles.        *)
(*                                                                         *)
(* Also modelled, each under a specification of its own:                   *)
(*   RiskManager    (src/unnamed/part_007), amounts as exact fractions     *)
(*   LockFreeQueue, MPSCQueue (utils/lockfree_queue.hpp) and MemoryPool    *)
(*   (utils/memory_pool.hpp), one step per access to shared memory         *)
(*   the threads of the host programs that share one engine                *)
(***************************************************************************)
EXTENDS Integers, Sequences, FiniteSets, TLC

\* ------------------------------------------------------------------ bounds
\* Number of API calls explored from the empty book.
MaxOps == 3
\* Order ids the callers use: 1..MaxId.
MaxId == 3
\* Number of RiskManager calls explored from a new manager.
MaxRiskOps == 4
\* Size of the LockFreeQueue explored (a power of two), and the number of
\* tryPush and of tryPop calls its producer and consumer make.
RingSize == 4
MaxPushCalls == 5
MaxPopCalls == 5
\* Producer threads of the MPSCQueue explored, and the pushes each makes.
Producers == {1, 2}
MaxPushes == 2
\* Threads using the MemoryPool explored, the calls each makes, the nodes of
\* a block and the blocks the pool may create.
PoolThreads == {1, 2}
MaxPoolCalls == 3
BlockSize == 2
MaxBlocks == 2
\* Threads of a host program that call one engine.
HostThreads == {1, 2}

\* The symbol the engine is constructed with, and the symbols callers send.
EngineSymbol == "AAPL"
OtherSymbol == "MSFT"
\* Fixed-point prices (display price x 100) and quantities the callers send.
Prices == {14950, 15000}
Quantities == {0, 100, 200}
OrderIds == 1..MaxId
\* Live order objects: at most one per resting id, plus the objects a call
\* creates or releases.
Handles == 1..(MaxId + 2)

\* nullptr of std::shared_ptr<Order>
Nil == 0
\* std::nullopt of std::optional<Price>
NoPrice == -1
\* getAskDepth(100) / getBidDepth(100) in the market matching loops
MarketDepthLevels == 100

\* ------------------------------------------------------------------ state
VARIABLES
    heap,       \* handle -> Order object (the objects some shared_ptr keeps alive)
    bids,       \* OrderBook::bids_  : price -> PriceLevel
    asks,       \* OrderBook::asks_  : price -> PriceLevel
    orderMap,   \* OrderBook::orderMap_ : id -> handle
    stats,      \* MatchingEngine::stats_
    nextOrderId,\* MatchingEngine::nextOrderId_
    lastCall,   \* the last API call: its arguments, return value and callbacks
    opCount,    \* number of API calls made so far
    limits,        \* RiskManager::limits_
    positions,     \* RiskManager::positions_ : symbol -> Position
    dailyPnL,      \* RiskManager::dailyPnL_
    peakEquity,    \* RiskManager::peakEquity_
    currentEquity, \* RiskManager::currentEquity_
    riskCall,   \* the last RiskManager call: arguments, verdict, manager before it
    ring,          \* a LockFreeQueue: head_, tail_, buffer_
    ringThreads,   \* its producer and consumer threads: position, locals, history
    mpsc,          \* an MPSCQueue: head_, tail_ and its nodes
    mpscThreads,   \* its producer threads and consumer thread
    pool,          \* a MemoryPool: head_, the slots' contents, the block count
    poolThreads,   \* the threads calling allocate and deallocate
    hostThreads    \* the threads of a host program that call the engine

\* The variables of the utilities, which no engine or RiskManager call touches
utilVars == <<ring, ringThreads, mpsc, mpscThreads, pool, poolThreads>>

vars ==
    <<heap, bids, asks, orderMap, stats, nextOrderId, lastCall, opCount,
      limits, positions, dailyPnL, peakEquity, currentEquity, riskCall,
      ring, ringThreads, mpsc, mpscThreads, pool, poolThreads, hostThreads>>

\* ------------------------------------------------------------------ helpers
Min(S) == CHOOSE x \in S : \A y \in S : x <= y
Max(S) == CHOOSE x \in S : \A y \in S : x >= y
MinQ(a, b) == IF a < b THEN a ELSE b

RECURSIVE SortAsc(_)
SortAsc(S) == IF S = {} THEN <<>> ELSE <<Min(S)>> \o SortAsc(S \ {Min(S)})

RECURSIVE SortDesc(_)
SortDesc(S) == IF S = {} THEN <<>> ELSE <<Max(S)>> \o SortDesc(S \ {Max(S)})

Range(f) == {f[x] : x \in DOMAIN f}

RECURSIVE SumSeq(_)
SumSeq(s) == IF s = <<>> THEN 0 ELSE Head(s) + SumSeq(Tail(s))

\* f with key k bound to v (std::map / unordered_map insert or assignment)
MapPut(f, k, v) == [x \in (DOMAIN f) \cup {k} |-> IF x = k THEN v ELSE f[x]]
\* f without key k (erase)
MapErase(f, k) == [x \in (DOMAIN f) \ {k} |-> f[x]]

EmptyMap == [x \in {} |-> 0]

\* ------------------------------------------------------------------ Order
\* Order::Order (limit constructor): remaining = quantity, status NEW
Order(id, symbol, side, type, price, quantity) ==
    [id |-> id, symbol |-> symbol, side |-> side, type |-> type,
     price |-> price, quantity |-> quantity,
     remainingQuantity |-> quantity, status |-> "NEW"]

\* Order::Order (market constructor): type MARKET, price 0
MarketOrder(id, symbol, side, quantity) ==
    Order(id, symbol, side, "MARKET", 0, quantity)

\* Order::fillQuantity
fillQuantity(o, qty) ==
    LET q == IF qty > o.remainingQuantity THEN o.remainingQuantity ELSE qty
        r == o.remainingQuantity - q
    IN  [o EXCEPT !.remainingQuantity = r,
                  !.status = IF r = 0 THEN "FILLED" ELSE "PARTIALLY_FILLED"]

\* Order::cancel
cancel(o) == [o EXCEPT !.status = "CANCELLED", !.remainingQuantity = 0]

\* ------------------------------------------------------------------ PriceLevel
\* PriceLevel::PriceLevel
PriceLevel(price) == [price |-> price, totalQuantity |-> 0, orders |-> <<>>]

\* PriceLevel::addOrder with push_front in place of push_back
PriceLevel_addOrder_PushFront(lv, hp, h) ==
    IF hp[h].price # lv.price
    THEN lv
    ELSE [lv EXCEPT !.orders = <<h>> \o @,
                    !.totalQuantity = @ + hp[h].remainingQuantity]

\* PriceLevel::addOrder, on level lv, with the objects of heap hp.
\* The price check throws; callers only pass the level found at the order's price.
PriceLevel_addOrder(lv, hp, h) ==
    IF hp[h].price # lv.price
    THEN lv
    ELSE [lv EXCEPT !.orders = Append(@, h),
                    !.totalQuantity = @ + hp[h].remainingQuantity]

\* The first of a set of positions, 0 (orders_.end()) if there is none
FirstOf(hits) == IF hits = {} THEN 0 ELSE Min(hits)

\* std::find_if over the deque: index of the first order with that id, 0 if none
FindInLevel(lv, hp, orderId) ==
    FirstOf({i \in 1..Len(lv.orders) : hp[lv.orders[i]].id = orderId})

EraseAt(s, i) == SubSeq(s, 1, i - 1) \o SubSeq(s, i + 1, Len(s))

\* PriceLevel::removeOrder erasing orders_.begin() instead of the iterator found
RemoveFound_EraseFront(lv, hp, i) ==
    IF i # 0
    THEN [lv EXCEPT !.totalQuantity = @ - hp[lv.orders[i]].remainingQuantity,
                    !.orders = EraseAt(@, 1)]
    ELSE lv

\* PriceLevel::removeOrder once find_if has answered i: subtracts the order's
\* *current* remaining quantity and erases it
RemoveFound(lv, hp, i) ==
    IF i # 0
    THEN [lv EXCEPT !.totalQuantity = @ - hp[lv.orders[i]].remainingQuantity,
                    !.orders = EraseAt(@, i)]
    ELSE lv

\* PriceLevel::removeOrder
PriceLevel_removeOrder(lv, hp, orderId) ==
    RemoveFound(lv, hp, FindInLevel(lv, hp, orderId))

\* PriceLevel::getFrontOrder
getFrontOrder(lv) == IF lv.orders = <<>> THEN Nil ELSE Head(lv.orders)

\* PriceLevel::isEmpty
isEmpty(lv) == lv.orders = <<>>

\* ------------------------------------------------------------------ OrderBook
\* A book-and-engine state s is the record
\*   [heap, bids, asks, orderMap, stats, log]
\* that the operators below thread through a call; log is the sequence of
\* callback invocations of the call.

\* std::make_shared<Order>: a handle no live object uses
AllocHandle(hp) == Min(Handles \ DOMAIN hp)

\* Handles some level's deque holds
LevelHandles(side) == UNION {Range(side[p].orders) : p \in DOMAIN side}

\* shared_ptr reference counting: the objects the book still references
Referenced(s) == Range(s.orderMap) \cup LevelHandles(s.bids) \cup LevelHandles(s.asks)

\* Objects referenced by nothing but the previous call's caller are released
Release(s) == [s EXCEPT !.heap = [h \in (DOMAIN s.heap) \cap Referenced(s) |-> s.heap[h]]]

\* OrderBook::addToBidSide
addToBidSide(s, h) ==
    LET price == s.heap[h].price
        lv == IF price \in DOMAIN s.bids THEN s.bids[price] ELSE PriceLevel(price)
    IN  [s EXCEPT !.bids = MapPut(@, price, PriceLevel_addOrder(lv, s.heap, h))]

\* OrderBook::addToAskSide
addToAskSide(s, h) ==
    LET price == s.heap[h].price
        lv == IF price \in DOMAIN s.asks THEN s.asks[price] ELSE PriceLevel(price)
    IN  [s EXCEPT !.asks = MapPut(@, price, PriceLevel_addOrder(lv, s.heap, h))]

\* if (it->second.isEmpty()) erase(it): the map with the level at price now lv
EraseIfEmpty(side, price, lv) ==
    IF isEmpty(lv) THEN MapErase(side, price) ELSE MapPut(side, price, lv)

\* removeFromBidSide / removeFromAskSide without the erase of an emptied level
RemoveFromSide_KeepEmptyLevel(side, hp, orderId, price) ==
    IF price \in DOMAIN side
    THEN MapPut(side, price, PriceLevel_removeOrder(side[price], hp, orderId))
    ELSE side

\* The level map after removing orderId from the level at price, erasing the
\* level when that leaves it empty (body shared by removeFromBidSide/AskSide)
RemoveFromSide(side, hp, orderId, price) ==
    IF price \in DOMAIN side
    THEN EraseIfEmpty(side, price, PriceLevel_removeOrder(side[price], hp, orderId))
    ELSE side

\* OrderBook::removeFromBidSide
removeFromBidSide(s, orderId, price) ==
    [s EXCEPT !.bids = RemoveFromSide(@, s.heap, orderId, price)]

\* OrderBook::removeFromAskSide
removeFromAskSide(s, orderId, price) ==
    [s EXCEPT !.asks = RemoveFromSide(@, s.heap, orderId, price)]

\* OrderBook::addOrder without the symbol check
OrderBook_addOrder_NoSymbolCheck(s, h) ==
    LET o == s.heap[h]
    IN  IF o.id \in DOMAIN s.orderMap
        THEN [s |-> s, ret |-> FALSE]
        ELSE LET s1 == IF o.side = "BUY" THEN addToBidSide(s, h) ELSE addToAskSide(s, h)
             IN  [s |-> [s1 EXCEPT !.orderMap = MapPut(@, o.id, h)], ret |-> TRUE]

\* OrderBook::addOrder without the duplicate-id check
OrderBook_addOrder_NoDuplicateCheck(s, h) ==
    LET o == s.heap[h]
    IN  IF o.symbol # EngineSymbol
        THEN [s |-> s, ret |-> FALSE]
        ELSE LET s1 == IF o.side = "BUY" THEN addToBidSide(s, h) ELSE addToAskSide(s, h)
             IN  [s |-> [s1 EXCEPT !.orderMap = MapPut(@, o.id, h)], ret |-> TRUE]

\* OrderBook::addOrder: [s |-> state after, ret |-> returned bool]
OrderBook_addOrder(s, h) ==
    LET o == s.heap[h]
    IN  IF o.symbol # EngineSymbol
        THEN [s |-> s, ret |-> FALSE]
        ELSE IF o.id \in DOMAIN s.orderMap
        THEN [s |-> s, ret |-> FALSE]
        ELSE LET s1 == IF o.side = "BUY" THEN addToBidSide(s, h) ELSE addToAskSide(s, h)
             IN  [s |-> [s1 EXCEPT !.orderMap = MapPut(@, o.id, h)], ret |-> TRUE]

\* cancelOrder, second step: the (already cancelled) order h leaves its level
RemoveFromLevel(s, orderId, h) ==
    IF s.heap[h].side = "BUY"
    THEN removeFromBidSide(s, orderId, s.heap[h].price)
    ELSE removeFromAskSide(s, orderId, s.heap[h].price)

\* cancelOrder, third step: orderMap_.erase(it)
EraseFromIndex(s, orderId) == [s EXCEPT !.orderMap = MapErase(@, orderId)]

\* OrderBook::cancelOrder answering true for an id the index does not hold
OrderBook_cancelOrder_UnknownIsTrue(s, orderId) ==
    IF orderId \notin DOMAIN s.orderMap
    THEN [s |-> s, ret |-> TRUE]
    ELSE [s |-> EraseFromIndex(
                   RemoveFromLevel([s EXCEPT !.heap[s.orderMap[orderId]] = cancel(@)],
                                   orderId, s.orderMap[orderId]),
                   orderId),
          ret |-> TRUE]

\* OrderBook::cancelOrder: the order is cancelled (remaining := 0) first, then
\* removed from its level, then erased from the index
OrderBook_cancelOrder(s, orderId) ==
    IF orderId \notin DOMAIN s.orderMap
    THEN [s |-> s, ret |-> FALSE]
    ELSE [s |-> EraseFromIndex(
                   RemoveFromLevel([s EXCEPT !.heap[s.orderMap[orderId]] = cancel(@)],
                                   orderId, s.orderMap[orderId]),
                   orderId),
          ret |-> TRUE]

\* OrderBook::modifyOrder keeping the order's object and queue position when
\* the price does not change
OrderBook_modifyOrder_InPlace(s, orderId, newPrice, newQuantity) ==
    IF orderId \notin DOMAIN s.orderMap
    THEN [s |-> s, ret |-> FALSE]
    ELSE LET h == s.orderMap[orderId]
             oldOrder == s.heap[h]
             hNew == AllocHandle(s.heap)
             newOrder == Order(orderId, oldOrder.symbol, oldOrder.side,
                               oldOrder.type, newPrice, newQuantity)
         IN  IF newPrice = oldOrder.price
             THEN [s |-> [s EXCEPT !.heap[h] = newOrder], ret |-> TRUE]
             ELSE OrderBook_addOrder(
                      OrderBook_cancelOrder([s EXCEPT !.heap = MapPut(@, hNew, newOrder)],
                                            orderId).s, hNew)

\* OrderBook::modifyOrder adding the new order before cancelling the old one
OrderBook_modifyOrder_AddThenCancel(s, orderId, newPrice, newQuantity) ==
    IF orderId \notin DOMAIN s.orderMap
    THEN [s |-> s, ret |-> FALSE]
    ELSE LET oldOrder == s.heap[s.orderMap[orderId]]
             hNew == AllocHandle(s.heap)
             newOrder == Order(orderId, oldOrder.symbol, oldOrder.side,
                               oldOrder.type, newPrice, newQuantity)
             added == OrderBook_addOrder([s EXCEPT !.heap = MapPut(@, hNew, newOrder)], hNew)
         IN  [s |-> OrderBook_cancelOrder(added.s, orderId).s, ret |-> added.ret]

\* OrderBook::modifyOrder: a new Order object with the same id, side and type
\* is created, the old one cancelled, the new one added
OrderBook_modifyOrder(s, orderId, newPrice, newQuantity) ==
    IF orderId \notin DOMAIN s.orderMap
    THEN [s |-> s, ret |-> FALSE]
    ELSE LET oldOrder == s.heap[s.orderMap[orderId]]
             hNew == AllocHandle(s.heap)
             newOrder == Order(orderId, oldOrder.symbol, oldOrder.side,
                               oldOrder.type, newPrice, newQuantity)
             s1 == [s EXCEPT !.heap = MapPut(@, hNew, newOrder)]
             s2 == OrderBook_cancelOrder(s1, orderId).s
         IN  OrderBook_addOrder(s2, hNew)

\* OrderBook::getBestBid (bids_ is ordered by std::greater)
getBestBid(s) == IF DOMAIN s.bids = {} THEN NoPrice ELSE Max(DOMAIN s.bids)

\* OrderBook::getBestAsk (asks_ is ordered by std::less)
getBestAsk(s) == IF DOMAIN s.asks = {} THEN NoPrice ELSE Min(DOMAIN s.asks)

DepthLevel(lv) ==
    [price |-> lv.price, quantity |-> lv.totalQuantity, orderCount |-> Len(lv.orders)]

\* OrderBook::getBidDepth
getBidDepth(s, levels) ==
    LET keys == SortDesc(DOMAIN s.bids)
    IN  [i \in 1..MinQ(levels, Len(keys)) |-> DepthLevel(s.bids[keys[i]])]

\* OrderBook::getAskDepth
getAskDepth(s, levels) ==
    LET keys == SortAsc(DOMAIN s.asks)
    IN  [i \in 1..MinQ(levels, Len(keys)) |-> DepthLevel(s.asks[keys[i]])]

\* OrderBook::getTotalBidQuantity
getTotalBidQuantity(s) ==
    SumSeq([i \in 1..Cardinality(DOMAIN s.bids) |->
               s.bids[SortDesc(DOMAIN s.bids)[i]].totalQuantity])

\* OrderBook::getTotalAskQuantity
getTotalAskQuantity(s) ==
    SumSeq([i \in 1..Cardinality(DOMAIN s.asks) |->
               s.asks[SortAsc(DOMAIN s.asks)[i]].totalQuantity])

\* OrderBook::getOrder
getOrder(s, orderId) ==
    IF orderId \in DOMAIN s.orderMap THEN s.orderMap[orderId] ELSE Nil

\* ------------------------------------------------------------------ MatchingEngine
\* Trade::Trade
Trade(buyOrderId, sellOrderId, price, quantity) ==
    [buyOrderId |-> buyOrderId, sellOrderId |-> sellOrderId,
     symbol |-> EngineSymbol, price |-> price, quantity |-> quantity]

\* Trade::getValue is priceToDouble(price) * quantity; kept here in hundredths
getValue(trade) == trade.price * trade.quantity

\* MatchingEngine::stats_{} (value-initialised)
InitStats ==
    [totalTrades |-> 0, totalVolume |-> 0, totalValue |-> 0,
     marketOrdersMatched |-> 0, limitOrdersMatched |-> 0]

\* An invocation of orderUpdateCallback_(order): what the callee sees of the order
OrderUpdate(o) ==
    [kind |-> "orderUpdate", id |-> o.id, status |-> o.status,
     remainingQuantity |-> o.remainingQuantity]

\* An invocation of tradeCallback_(trade)
TradeEvent(trade) == [kind |-> "trade", trade |-> trade]

\* MatchingEngine::getBestBidOrder: returns nullptr on both paths
getBestBidOrder(s) ==
    IF Len(getBidDepth(s, 1)) = 0 THEN Nil ELSE Nil

\* MatchingEngine::getBestAskOrder: returns nullptr on both paths
getBestAskOrder(s) ==
    IF Len(getAskDepth(s, 1)) = 0 THEN Nil ELSE Nil

\* Trade(order->getId(), sellOrder->getId(), ...) for a buying aggressor,
\* Trade(buyOrder->getId(), order->getId(), ...) for a selling one
PairTrade(agg, rest, tradePrice, fillQty) ==
    IF agg.side = "BUY"
    THEN Trade(agg.id, rest.id, tradePrice, fillQty)
    ELSE Trade(rest.id, agg.id, tradePrice, fillQty)

\* order->fillQuantity(fillQty); restingOrder->fillQuantity(fillQty)
FillBoth(s, h, r, fillQty) ==
    [[s EXCEPT !.heap[h] = fillQuantity(@, fillQty)]
        EXCEPT !.heap[r] = fillQuantity(@, fillQty)]

\* if (restingOrder->getRemainingQuantity() == 0) orderBook_.cancelOrder(its id)
RemoveIfFilled(s, r) ==
    IF s.heap[r].remainingQuantity = 0
    THEN OrderBook_cancelOrder(s, s.heap[r].id).s
    ELSE s

\* statistics and the resting order's update callback, on the state s after
\* the fills and the removal
CountTrade(s, r, trade) ==
    [s EXCEPT !.stats.totalTrades = @ + 1,
              !.stats.totalVolume = @ + trade.quantity,
              !.stats.totalValue = @ + getValue(trade),
              !.log = Append(@, OrderUpdate(s.heap[r]))]

\* The loop body once fillQty is computed
FillPair(m, h, r, tradePrice, fillQty) ==
    [s |-> CountTrade(RemoveIfFilled(FillBoth(m.s, h, r, fillQty), r), r,
                      PairTrade(m.s.heap[h], m.s.heap[r], tradePrice, fillQty)),
     trades |-> Append(m.trades,
                       PairTrade(m.s.heap[h], m.s.heap[r], tradePrice, fillQty)),
     remaining |-> m.remaining - fillQty]

\* A matching loop's state m is [s, trades, remaining]; h is the aggressor,
\* r the resting order the accessor returned.  One iteration of the loop body
\* after the accessor: trade, both fills, removal of a filled resting order,
\* statistics, order-update callback for the resting order.
MatchPair(m, h, r, tradePrice) ==
    FillPair(m, h, r, tradePrice, MinQ(m.remaining, m.s.heap[r].remainingQuantity))

\* while loop of matchLimitBuyOrder
RECURSIVE LimitBuyLoop(_, _, _)
LimitBuyLoop(m, h, limitPrice) ==
    IF ~(m.remaining > 0) THEN m
    ELSE LET bestAsk == getBestAsk(m.s)
         IN  IF bestAsk = NoPrice \/ bestAsk > limitPrice THEN m
             ELSE LET sellOrder == getBestAskOrder(m.s)
                  IN  IF sellOrder = Nil THEN m
                      ELSE LimitBuyLoop(MatchPair(m, h, sellOrder, bestAsk), h, limitPrice)

\* while loop of matchLimitSellOrder
RECURSIVE LimitSellLoop(_, _, _)
LimitSellLoop(m, h, limitPrice) ==
    IF ~(m.remaining > 0) THEN m
    ELSE LET bestBid == getBestBid(m.s)
         IN  IF bestBid = NoPrice \/ bestBid < limitPrice THEN m
             ELSE LET buyOrder == getBestBidOrder(m.s)
                  IN  IF buyOrder = Nil THEN m
                      ELSE LimitSellLoop(MatchPair(m, h, buyOrder, bestBid), h, limitPrice)

\* A match function that returns without the aggressor's callback
NotifyAggressor_Skip(m, h) == m

\* The aggressor's order-update callback that ends every match function
NotifyAggressor(m, h) ==
    [m EXCEPT !.s.log = Append(@, OrderUpdate(m.s.heap[h]))]

\* MatchingEngine::matchLimitBuyOrder
matchLimitBuyOrder(s, h) ==
    NotifyAggressor(
        LimitBuyLoop([s |-> s, trades |-> <<>>,
                      remaining |-> s.heap[h].remainingQuantity],
                     h, s.heap[h].price), h)

\* MatchingEngine::matchLimitSellOrder
matchLimitSellOrder(s, h) ==
    NotifyAggressor(
        LimitSellLoop([s |-> s, trades |-> <<>>,
                       remaining |-> s.heap[h].remainingQuantity],
                      h, s.heap[h].price), h)

\* if (order->getRemainingQuantity() > 0) orderBook_.addOrder(order)
RestResidual(m, h) ==
    IF m.s.heap[h].remainingQuantity > 0
    THEN [m EXCEPT !.s = OrderBook_addOrder(m.s, h).s]
    ELSE m

\* stats_.limitOrdersMatched++
CountLimitOrder(m) == [m EXCEPT !.s.stats.limitOrdersMatched = @ + 1]

\* MatchingEngine::matchLimitOrder: the residual is added to the book
matchLimitOrder(s, h) ==
    CountLimitOrder(
        RestResidual(IF s.heap[h].side = "BUY"
                     THEN matchLimitBuyOrder(s, h)
                     ELSE matchLimitSellOrder(s, h), h))

\* inner while loop of matchMarketBuyOrder, for one level of the depth snapshot
RECURSIVE MarketBuyLevelLoop(_, _, _)
MarketBuyLevelLoop(m, h, levelPrice) ==
    IF ~(m.remaining > 0) THEN m
    ELSE LET bestAsk == getBestAsk(m.s)
         IN  IF bestAsk = NoPrice \/ bestAsk # levelPrice THEN m
             ELSE LET sellOrder == getBestAskOrder(m.s)
                  IN  IF sellOrder = Nil THEN m
                      ELSE MarketBuyLevelLoop(MatchPair(m, h, sellOrder, levelPrice),
                                              h, levelPrice)

\* for loop of matchMarketBuyOrder over the depth snapshot, from index i
RECURSIVE MarketBuyDepthLoop(_, _, _, _)
MarketBuyDepthLoop(m, h, askDepth, i) ==
    IF i > Len(askDepth) \/ m.remaining = 0 THEN m
    ELSE MarketBuyDepthLoop(MarketBuyLevelLoop(m, h, askDepth[i].price),
                            h, askDepth, i + 1)

\* inner while loop of matchMarketSellOrder
RECURSIVE MarketSellLevelLoop(_, _, _)
MarketSellLevelLoop(m, h, levelPrice) ==
    IF ~(m.remaining > 0) THEN m
    ELSE LET bestBid == getBestBid(m.s)
         IN  IF bestBid = NoPrice \/ bestBid # levelPrice THEN m
             ELSE LET buyOrder == getBestBidOrder(m.s)
                  IN  IF buyOrder = Nil THEN m
                      ELSE MarketSellLevelLoop(MatchPair(m, h, buyOrder, levelPrice),
                                               h, levelPrice)

\* for loop of matchMarketSellOrder over the depth snapshot, from index i
RECURSIVE MarketSellDepthLoop(_, _, _, _)
MarketSellDepthLoop(m, h, bidDepth, i) ==
    IF i > Len(bidDepth) \/ m.remaining = 0 THEN m
    ELSE MarketSellDepthLoop(MarketSellLevelLoop(m, h, bidDepth[i].price),
                             h, bidDepth, i + 1)

\* MatchingEngine::matchMarketBuyOrder
matchMarketBuyOrder(s, h) ==
    NotifyAggressor(
        MarketBuyDepthLoop([s |-> s, trades |-> <<>>,
                            remaining |-> s.heap[h].remainingQuantity],
                           h, getAskDepth(s, MarketDepthLevels), 1), h)

\* MatchingEngine::matchMarketSellOrder
matchMarketSellOrder(s, h) ==
    NotifyAggressor(
        MarketSellDepthLoop([s |-> s, trades |-> <<>>,
                             remaining |-> s.heap[h].remainingQuantity],
                            h, getBidDepth(s, MarketDepthLevels), 1), h)

\* The market counter kept in a statistics record of its own:
\* stats_ = MatchingStats{}; stats_.marketOrdersMatched = previous + 1
CountMarketOrder_FreshStats(m) ==
    [m EXCEPT !.s.stats =
        [InitStats EXCEPT !.marketOrdersMatched = m.s.stats.marketOrdersMatched + 1]]

\* stats_.marketOrdersMatched++
CountMarketOrder(m) == [m EXCEPT !.s.stats.marketOrdersMatched = @ + 1]

\* MatchingEngine::matchMarketOrder resting the residual as matchLimitOrder does
matchMarketOrder_RestResidual(s, h) ==
    CountMarketOrder(
        RestResidual(IF s.heap[h].side = "BUY"
                     THEN matchMarketBuyOrder(s, h)
                     ELSE matchMarketSellOrder(s, h), h))

\* MatchingEngine::matchMarketOrder
matchMarketOrder(s, h) ==
    CountMarketOrder(IF s.heap[h].side = "BUY"
                     THEN matchMarketBuyOrder(s, h)
                     ELSE matchMarketSellOrder(s, h))

\* The notification loop written do { tradeCallback_(...) } while (...): the
\* callback runs once even for an empty vector, then on a value-initialised Trade
NotifyTrades_DoWhile(m) ==
    [s |-> [m.s EXCEPT !.log = @ \o
               [i \in 1..Max({1, Len(m.trades)}) |->
                   TradeEvent(IF i <= Len(m.trades) THEN m.trades[i]
                              ELSE Trade(0, 0, 0, 0))]],
     trades |-> m.trades]

\* for (trade : trades) tradeCallback_(trade), then return trades
NotifyTrades(m) ==
    [s |-> [m.s EXCEPT !.log = @ \o [i \in 1..Len(m.trades) |-> TradeEvent(m.trades[i])]],
     trades |-> m.trades]

\* MatchingEngine::submitOrder: [s |-> state after, trades |-> returned vector];
\* the trade callback runs once per returned trade, after matching
submitOrder(s, h) ==
    IF s.heap[h].symbol # EngineSymbol
    THEN [s |-> s, trades |-> <<>>]
    ELSE NotifyTrades(IF s.heap[h].type = "MARKET" THEN matchMarketOrder(s, h)
                      ELSE matchLimitOrder(s, h))

\* MatchingEngine::cancelOrder
cancelOrder(s, orderId) == OrderBook_cancelOrder(s, orderId)

\* MatchingEngine::modifyOrder
modifyOrder(s, orderId, newPrice, newQuantity) ==
    OrderBook_modifyOrder(s, orderId, newPrice, newQuantity)

\* ------------------------------------------------------------------ double
\* The ledger's amounts are C++ doubles.  They are modelled as exact fractions
\* [n, d] in lowest terms with d > 0, and NaN as the one value with d = 0;
\* the rounding of binary floating point is not modelled.  A divisor of zero
\* arises in the ledger only as a sum of two non-negative weights, both zero,
\* under a dividend that is then zero or NaN, so that x / 0 is always NaN there.
RECURSIVE GCD(_, _)
GCD(a, b) == IF b = 0 THEN a ELSE GCD(b, a % b)

Abs(i) == IF i < 0 THEN -i ELSE i

NaN == [n |-> 0, d |-> 0]
IsNaN(x) == x.d = 0

Fraction(n, d) ==
    LET g == GCD(Abs(n), Abs(d))
    IN  IF d = 0 THEN NaN
        ELSE [n |-> (IF d < 0 THEN -n ELSE n) \div g, d |-> Abs(d) \div g]

\* static_cast<double>(i), and the integer-to-double conversion of a mixed product
Double(i) == [n |-> i, d |-> 1]
Zero == Double(0)

DAdd(x, y) ==
    IF IsNaN(x) \/ IsNaN(y) THEN NaN ELSE Fraction(x.n * y.d + y.n * x.d, x.d * y.d)
DSub(x, y) ==
    IF IsNaN(x) \/ IsNaN(y) THEN NaN ELSE Fraction(x.n * y.d - y.n * x.d, x.d * y.d)
DMul(x, y) ==
    IF IsNaN(x) \/ IsNaN(y) THEN NaN ELSE Fraction(x.n * y.n, x.d * y.d)
DDiv(x, y) ==
    IF IsNaN(x) \/ IsNaN(y) THEN NaN ELSE Fraction(x.n * y.d, x.d * y.n)
\* x < y and x > y; every comparison with NaN is false
DLess(x, y) == ~IsNaN(x) /\ ~IsNaN(y) /\ x.n * y.d < y.n * x.d
DGreater(x, y) == DLess(y, x)

\* priceToDouble: the fixed-point price divided by 100.0
priceToDouble(price) == DDiv(Double(price), Double(100))

\* ------------------------------------------------------------------ RiskManager
\* Position::Position(): empty symbol, everything zero
Position ==
    [symbol |-> "", quantity |-> 0, averagePrice |-> Zero, realizedPnL |-> Zero,
     unrealizedPnL |-> Zero, totalBought |-> 0, totalSold |-> 0]

\* Position::updateUnrealizedPnL
Position_updateUnrealizedPnL(pos, currentPrice) ==
    [pos EXCEPT !.unrealizedPnL =
        IF pos.quantity = 0 THEN Zero
        ELSE DMul(Double(pos.quantity), DSub(currentPrice, pos.averagePrice))]

\* RiskLimits::RiskLimits(): the default limits
RiskLimits ==
    [maxOrderSize |-> 10000, maxOrderValue |-> Double(1000000),
     maxPositionSize |-> 50000, maxPositionValue |-> Double(5000000),
     maxDailyLoss |-> Double(100000), maxDrawdown |-> Double(200000),
     maxOrdersPerSecond |-> 100]

\* RiskManager::RiskManager(limits): no positions, zero PnL and equity.
\* A manager rm is [limits, positions, dailyPnL, peakEquity, currentEquity].
RiskManager(lim) ==
    [limits |-> lim, positions |-> EmptyMap, dailyPnL |-> Zero,
     peakEquity |-> Zero, currentEquity |-> Zero]

\* positions_[symbol]: std::unordered_map::operator[] inserts a
\* value-initialised Position when the key is absent
PositionsAt(rm, symbol) ==
    IF symbol \in DOMAIN rm.positions THEN rm
    ELSE [rm EXCEPT !.positions = MapPut(@, symbol, Position)]

\* What validateOrder returns: the manager as the call left it, and the verdict
Verdict(rm, ret) == [rm |-> rm, ret |-> ret]

\* orderPrice of validateOrder
OrderPrice(order, currentPrice) ==
    IF order.type = "MARKET" THEN currentPrice ELSE priceToDouble(order.price)

\* newQuantity of validateOrder
NewQuantity(position, order) ==
    IF order.side = "BUY" THEN position.quantity + order.quantity
    ELSE position.quantity - order.quantity

\* validateOrder from the position checks on; rm already holds the entry that
\* positions_[order.getSymbol()] refers to
CheckPosition(rm, newQuantity, orderPrice) ==
    IF Abs(newQuantity) > rm.limits.maxPositionSize
    THEN Verdict(rm, "REJECTED_POSITION_LIMIT")
    ELSE IF DGreater(DMul(Double(Abs(newQuantity)), orderPrice),
                     rm.limits.maxPositionValue)
    THEN Verdict(rm, "REJECTED_POSITION_VALUE")
    ELSE IF DLess(rm.dailyPnL, DSub(Zero, rm.limits.maxDailyLoss))
    THEN Verdict(rm, "REJECTED_DAILY_LOSS")
    ELSE IF DGreater(DSub(rm.peakEquity, rm.currentEquity), rm.limits.maxDrawdown)
    THEN Verdict(rm, "REJECTED_DRAWDOWN")
    ELSE Verdict(rm, "ACCEPTED")

CheckPositionOf(rm, order, orderPrice) ==
    CheckPosition(rm, NewQuantity(rm.positions[order.symbol], order), orderPrice)

\* validateOrder with the size check written >=, so that an order of exactly
\* maxOrderSize is rejected
validateOrder_SizeInclusive(rm, order, currentPrice) ==
    IF order.quantity >= rm.limits.maxOrderSize
    THEN Verdict(rm, "REJECTED_ORDER_SIZE")
    ELSE IF DGreater(DMul(Double(order.quantity), OrderPrice(order, currentPrice)),
                     rm.limits.maxOrderValue)
    THEN Verdict(rm, "REJECTED_ORDER_VALUE")
    ELSE CheckPositionOf(PositionsAt(rm, order.symbol), order,
                         OrderPrice(order, currentPrice))

\* RiskManager::validateOrder
validateOrder(rm, order, currentPrice) ==
    IF order.quantity > rm.limits.maxOrderSize
    THEN Verdict(rm, "REJECTED_ORDER_SIZE")
    ELSE IF DGreater(DMul(Double(order.quantity), OrderPrice(order, currentPrice)),
                     rm.limits.maxOrderValue)
    THEN Verdict(rm, "REJECTED_ORDER_VALUE")
    ELSE CheckPositionOf(PositionsAt(rm, order.symbol), order,
                         OrderPrice(order, currentPrice))

\* position.symbol = symbol when it is empty
NamePosition(rm, symbol) ==
    [rm EXCEPT !.positions[symbol].symbol = IF @ = "" THEN symbol ELSE @]

\* The sold total kept only in the branch that opens or adds to a short
TotalSoldPlus_WhenOpening(rm, symbol, tradeQty) ==
    [rm EXCEPT !.positions[symbol].totalSold =
        IF rm.positions[symbol].quantity <= 0 THEN @ + tradeQty ELSE @]

\* position.totalBought += tradeQty / position.totalSold += tradeQty
TotalBoughtPlus(rm, symbol, tradeQty) ==
    [rm EXCEPT !.positions[symbol].totalBought = @ + tradeQty]
TotalSoldPlus(rm, symbol, tradeQty) ==
    [rm EXCEPT !.positions[symbol].totalSold = @ + tradeQty]

\* The weighted average of the held quantity at the old average and the
\* traded quantity at the trade price
WeightedAverage(held, averagePrice, tradeQty, tradePrice) ==
    DDiv(DAdd(DMul(Double(held), averagePrice), DMul(Double(tradeQty), tradePrice)),
         Double(held + tradeQty))

\* Adding to long or opening long / adding to short or opening short
AddExposure(rm, symbol, tradePrice, tradeQty, newQuantity) ==
    [rm EXCEPT !.positions[symbol].averagePrice =
                   WeightedAverage(Abs(rm.positions[symbol].quantity), @,
                                   tradeQty, tradePrice),
               !.positions[symbol].quantity = newQuantity]

\* Realize that closes at most the held exposure: a larger trade leaves the
\* position flat instead of flipping it
Realize_ClampAtZero(rm, symbol, pnl, newQuantity, tradePrice, flipped) ==
    [rm EXCEPT !.positions[symbol].realizedPnL = DAdd(@, pnl),
               !.dailyPnL = DAdd(@, pnl),
               !.positions[symbol].quantity = IF flipped THEN 0 ELSE newQuantity]

\* Realize without the flip branch: the average price is never replaced
Realize_KeepAverage(rm, symbol, pnl, newQuantity, tradePrice, flipped) ==
    [rm EXCEPT !.positions[symbol].realizedPnL = DAdd(@, pnl),
               !.dailyPnL = DAdd(@, pnl),
               !.positions[symbol].quantity = newQuantity]

\* Covering short / closing long once pnl is computed: both PnL totals, the
\* quantity, and the average price when the position flipped
Realize(rm, symbol, pnl, newQuantity, tradePrice, flipped) ==
    [rm EXCEPT !.positions[symbol].realizedPnL = DAdd(@, pnl),
               !.dailyPnL = DAdd(@, pnl),
               !.positions[symbol].quantity = newQuantity,
               !.positions[symbol].averagePrice = IF flipped THEN tradePrice ELSE @]

\* closingQty
ClosingQty(tradeQty, position) == MinQ(tradeQty, Abs(position.quantity))

\* the BUY branch after the total
BuyBranch(rm, symbol, position, tradePrice, tradeQty) ==
    IF position.quantity >= 0
    THEN AddExposure(rm, symbol, tradePrice, tradeQty, position.quantity + tradeQty)
    ELSE Realize(rm, symbol,
                 DMul(Double(ClosingQty(tradeQty, position)),
                      DSub(position.averagePrice, tradePrice)),
                 position.quantity + tradeQty, tradePrice,
                 position.quantity + tradeQty > 0)

\* the SELL branch after the total
SellBranch(rm, symbol, position, tradePrice, tradeQty) ==
    IF position.quantity <= 0
    THEN AddExposure(rm, symbol, tradePrice, tradeQty, position.quantity - tradeQty)
    ELSE Realize(rm, symbol,
                 DMul(Double(ClosingQty(tradeQty, position)),
                      DSub(tradePrice, position.averagePrice)),
                 position.quantity - tradeQty, tradePrice,
                 position.quantity - tradeQty < 0)

\* the position update of updatePosition, on the manager that holds the entry
ApplyTrade(rm, symbol, tradePrice, tradeQty, isBuy) ==
    IF isBuy
    THEN BuyBranch(TotalBoughtPlus(rm, symbol, tradeQty), symbol,
                   rm.positions[symbol], tradePrice, tradeQty)
    ELSE SellBranch(TotalSoldPlus(rm, symbol, tradeQty), symbol,
                    rm.positions[symbol], tradePrice, tradeQty)

\* dailyPnL_ plus every position's unrealizedPnL, added one position at a time
RECURSIVE SumUnrealized(_, _, _)
SumUnrealized(total, positionMap, symbols) ==
    IF symbols = {} THEN total
    ELSE LET sym == CHOOSE x \in symbols : TRUE
         IN  SumUnrealized(DAdd(total, positionMap[sym].unrealizedPnL),
                           positionMap, symbols \ {sym})

\* RiskManager::getTotalPnL
getTotalPnL(rm) == SumUnrealized(rm.dailyPnL, rm.positions, DOMAIN rm.positions)

\* if (currentEquity_ > peakEquity_) peakEquity_ = currentEquity_
RaisePeak(rm) ==
    [rm EXCEPT !.peakEquity =
        IF DGreater(rm.currentEquity, @) THEN rm.currentEquity ELSE @]

\* "Update equity" at the end of updatePosition
UpdateEquity(rm) ==
    RaisePeak([rm EXCEPT !.currentEquity =
                   SumUnrealized(rm.dailyPnL, rm.positions, DOMAIN rm.positions)])

\* RiskManager::updatePosition
updatePosition(rm, trade, aggressorSide) ==
    UpdateEquity(
        ApplyTrade(NamePosition(PositionsAt(rm, trade.symbol), trade.symbol),
                   trade.symbol, priceToDouble(trade.price), trade.quantity,
                   aggressorSide = "BUY"))

\* RiskManager::updateUnrealizedPnL
updateUnrealizedPnL(rm, symbol, currentPrice) ==
    IF symbol \in DOMAIN rm.positions
    THEN [rm EXCEPT !.positions[symbol] = Position_updateUnrealizedPnL(@, currentPrice)]
    ELSE rm

\* RiskManager::getPosition: the entry, or the static empty Position
getPosition(rm, symbol) ==
    IF symbol \in DOMAIN rm.positions THEN rm.positions[symbol] ELSE Position

\* RiskManager::getAllPositions
getAllPositions(rm) == rm.positions

\* RiskManager::getDailyPnL
getDailyPnL(rm) == rm.dailyPnL

\* RiskManager::getCurrentDrawdown
getCurrentDrawdown(rm) == DSub(rm.peakEquity, rm.currentEquity)

\* resetDaily that zeroes the unrealized PnL of every position as well
resetDaily_ZeroUnrealized(rm) ==
    [rm EXCEPT !.dailyPnL = Zero,
               !.positions = [sym \in DOMAIN @ |->
                                 [@[sym] EXCEPT !.realizedPnL = Zero,
                                                !.unrealizedPnL = Zero]]]

\* RiskManager::resetDaily
resetDaily(rm) ==
    [rm EXCEPT !.dailyPnL = Zero,
               !.positions = [sym \in DOMAIN @ |-> [@[sym] EXCEPT !.realizedPnL = Zero]]]

\* ------------------------------------------------------------------ LockFreeQueue
\* LockFreeQueue<T, Size>: a ring is [head, tail, buffer], buffer indexed
\* 0..Size-1.  Each atomic load or store and each buffer access is one step
\* of the thread that makes it.  The release store of an index and the
\* acquire load that reads it order the buffer accesses before and after
\* them, so the steps are interleaved in one total order.
\* A slot of T buffer_[Size] that was never assigned
Unwritten == -1

\* LockFreeQueue::LockFreeQueue: head_(0), tail_(0)
LockFreeQueue ==
    [head |-> 0, tail |-> 0, buffer |-> [i \in 0..(RingSize - 1) |-> Unwritten]]

\* (index + 1) & (Size - 1), Size a power of two
NextIndex(index) == (index + 1) % RingSize

\* LockFreeQueue::capacity
capacity == RingSize - 1

\* The full test of tryPush that never holds
RingFull_Never(nextTail, head) == FALSE

\* nextTail == head_.load(acquire): the queue is full
RingFull(nextTail, head) == nextTail = head

\* currentHead == tail_.load(acquire): the queue is empty
RingEmpty(currentHead, tail) == currentHead = tail

\* The producer and the consumer between calls.  pushed / popped are the
\* values successful tryPush / tryPop calls have accepted / returned, in
\* order; pushCalls / popCalls count the calls started.
RingThreadsIdle ==
    [producer |-> [pc |-> "idle", item |-> 0, currentTail |-> 0, nextTail |-> 0],
     consumer |-> [pc |-> "idle", item |-> 0, currentHead |-> 0],
     pushed |-> <<>>, popped |-> <<>>, pushCalls |-> 0, popCalls |-> 0]

\* What a read of a slot yields: its value, or any value for a slot that was
\* never assigned
SlotValues(slot) == IF slot = Unwritten THEN 0..MaxPushCalls ELSE {slot}

\* ------------------------------------------------------------------ MPSCQueue
\* MPSCQueue<T>: a queue is [head, tail, nodes, allocated, freed].  nodes maps
\* a node address to [data, next]; addresses are handed out in order and
\* never reused, freed is the set of nodes deleted.  Each atomic operation is
\* one step of the thread that makes it.
\* The null Node*
NullNode == -1

\* Addresses new Node can return: the dummy and one node per push
NodeIds == 0..(Cardinality(Producers) * MaxPushes)

\* Node(item): data(item), next(nullptr); a node not yet allocated is the same
Node(item) == [data |-> item, next |-> NullNode]

\* MPSCQueue::MPSCQueue: head_ and tail_ point at a dummy node holding T{}
MPSCQueue ==
    [head |-> 0, tail |-> 0, allocated |-> 1, freed |-> {},
     nodes |-> [n \in NodeIds |-> Node(0)]]

\* The k-th item producer p pushes
ItemOf(p, k) == 10 * p + k

\* new Node(item) followed by tail_.exchange(newNode): the queue afterwards
Exchange(q, item) ==
    [q EXCEPT !.nodes[q.allocated] = Node(item),
              !.tail = q.allocated,
              !.allocated = @ + 1]

\* prevTail->next.store(newNode)
Link(q, prevTail, newNode) == [q EXCEPT !.nodes[prevTail].next = newNode]

\* The node tryPop takes the item from, were it the head itself
PoppedNode_Head(head, next) == head

\* The node tryPop takes the item from: next, the one after the head
PoppedNode(head, next) == next

\* MPSCQueue::isEmpty
MPSC_isEmpty(q) == q.nodes[q.head].next = NullNode

\* The producers and the consumer between calls.  exchanged / completed are
\* the items whose push has done its exchange / has returned; popped is the
\* sequence of items successful tryPop calls returned; misuse records an
\* access to a deleted node.
MPSCThreadsIdle ==
    [producers |-> [p \in Producers |->
                       [pc |-> "idle", pushes |-> 0, newNode |-> NullNode,
                        prevTail |-> NullNode]],
     consumer |-> [pc |-> "idle", head |-> NullNode, next |-> NullNode, ret |-> "none"],
     exchanged |-> {}, completed |-> {}, popped |-> <<>>, misuse |-> FALSE]

\* ------------------------------------------------------------------ MemoryPool
\* MemoryPool<T, BlockSize>: a pool is [head, content, blocks].  A slot is a
\* Node of some block, numbered block * BlockSize + index; content maps a slot
\* to what its union holds, the free-list link of a free slot or the caller's
\* object.  Each atomic operation on head_ and each access to a slot's link
\* is one step of the thread that makes it.
\* The null Node*
NullSlot == -1

\* The union holds a T, or nothing yet, rather than a link
NotALink == -2

\* The slots of all the blocks the pool may create
Slots == 0..(MaxBlocks * BlockSize - 1)

\* The slots of block b
BlockSlots(b) == (b * BlockSize)..(b * BlockSize + BlockSize - 1)

\* allocateBlock, lines 140-146: block b's nodes linked in order, the last
\* one to the head just loaded; the block joins blocks_
NewBlock(mp, b, head) ==
    [mp EXCEPT
        !.content = [s \in Slots |->
                        IF s \notin BlockSlots(b) THEN mp.content[s]
                        ELSE IF s = b * BlockSize + BlockSize - 1 THEN head
                        ELSE s + 1],
        !.blocks = @ + 1]

\* allocateBlock, line 156: head_.store(&newBlock->nodes[0])
PublishBlock(mp, b) == [mp EXCEPT !.head = b * BlockSize]

\* MemoryPool::MemoryPool: head_(nullptr), blocks_(nullptr), allocateBlock()
MemoryPool ==
    PublishBlock(NewBlock([head |-> NullSlot, blocks |-> 0,
                           content |-> [s \in Slots |-> NotALink]],
                          0, NullSlot), 0)

\* What node->next reads: the link, or any pointer when the union holds
\* another caller's object
LinksRead(content) ==
    IF content = NotALink THEN Slots \cup {NullSlot} ELSE {content}

\* The threads between calls: holds is the set of slots allocate returned to
\* the thread and it has not passed to deallocate; twice records an allocate
\* that returned a slot some caller held.
PoolThreadsIdle ==
    [threads |-> [t \in PoolThreads |->
                     [pc |-> "idle", calls |-> 0, node |-> NullSlot,
                      next |-> NullSlot, block |-> 0, holds |-> {}]],
     twice |-> FALSE]

\* ------------------------------------------------------------------ host programs
\* The threads of a host program that hold a reference to one engine: the
\* per-client threads of the TCP server, the simulation and update threads
\* of the dashboard, the threads of the submission test.  A thread is
\* [pc, entry]: where it is, and the engine state it found when it entered
\* the engine call it is in.
\* The engine state of a thread that is in no engine call
NoEntry ==
    [heap |-> EmptyMap, bids |-> EmptyMap, asks |-> EmptyMap,
     orderMap |-> EmptyMap, stats |-> InitStats, log |-> <<>>]

\* A thread outside the engine
HostOutside == [pc |-> "outside", entry |-> NoEntry]

\* The threads as started
HostThreadsStarted == [t \in HostThreads |-> HostOutside]

\* The orders the hosts submit: limit orders of 100 for the engine's symbol
HostOrders(id) ==
    {Order(id, EngineSymbol, side, "LIMIT", p, 100) :
        side \in {"BUY", "SELL"}, p \in Prices}

\* The threads inside engine.submitOrder
HostWriters(threads) == {t \in HostThreads : threads[t].pc = "submitOrder"}

\* The threads reading the book's depth
HostReaders(threads) == {t \in HostThreads : threads[t].pc = "readBook"}

\* The states a submitOrder execution may have worked on: the engine as it
\* is, or, when the engine changed under the execution, as it was on entry
HostBases(c, entry) == IF entry.heap = c.heap /\ entry.orderMap = c.orderMap
                       THEN {c} ELSE {c, entry}

\* ------------------------------------------------------------------ actions
\* The state a call starts from: objects only the previous caller referenced
\* are gone, and the call's callback log is empty
Cur ==
    Release([heap |-> heap, bids |-> bids, asks |-> asks, orderMap |-> orderMap,
             stats |-> stats, log |-> <<>>])

NoCall ==
    [op |-> "none", handle |-> Nil, id |-> 0, price |-> 0, quantity |-> 0,
     ret |-> FALSE, trades |-> <<>>, log |-> <<>>]

\* The engine after a call that ended in s, recorded as call
CommitEngine(s, call) ==
    /\ heap' = s.heap
    /\ bids' = s.bids
    /\ asks' = s.asks
    /\ orderMap' = s.orderMap
    /\ stats' = s.stats
    /\ lastCall' = call
    /\ opCount' = opCount + 1
    /\ nextOrderId' = IF call.id = nextOrderId THEN nextOrderId + 1 ELSE nextOrderId
    /\ UNCHANGED <<limits, positions, dailyPnL, peakEquity, currentEquity, riskCall>>
    /\ UNCHANGED utilVars

\* The state after a call that ended in s, made by a single caller
Commit(s, call) ==
    /\ CommitEngine(s, call)
    /\ UNCHANGED hostThreads

\* No RiskManager call yet, on the manager rm
NoRiskCall(rm) ==
    [op |-> "none", symbol |-> "", side |-> "", type |-> "", price |-> 0,
     quantity |-> 0, currentPrice |-> Zero, ret |-> "", before |-> rm]

\* The manager rm as constructed
RiskIs(rm) ==
    /\ limits = rm.limits
    /\ positions = rm.positions
    /\ dailyPnL = rm.dailyPnL
    /\ peakEquity = rm.peakEquity
    /\ currentEquity = rm.currentEquity
    /\ riskCall = NoRiskCall(rm)

\* The utilities as constructed, their threads between calls
UtilsInit ==
    /\ ring = LockFreeQueue
    /\ ringThreads = RingThreadsIdle
    /\ mpsc = MPSCQueue
    /\ mpscThreads = MPSCThreadsIdle
    /\ pool = MemoryPool
    /\ poolThreads = PoolThreadsIdle
    /\ hostThreads = HostThreadsStarted

\* MatchingEngine(symbol): empty book, zero statistics, nextOrderId_(1)
EngineInit ==
    /\ heap = EmptyMap
    /\ bids = EmptyMap
    /\ asks = EmptyMap
    /\ orderMap = EmptyMap
    /\ stats = InitStats
    /\ nextOrderId = 1
    /\ lastCall = NoCall
    /\ opCount = 0

\* The engine, and a RiskManager with the default limits
Init ==
    /\ EngineInit
    /\ RiskIs(RiskManager(RiskLimits))
    /\ UtilsInit

\* The ids a caller passes: one issued before, or the next one
\* (MatchingEngine::getNextOrderId); ids are only ever compared for equality,
\* so every call sequence is a renaming of one that uses ids in this order
CallerIds == {id \in OrderIds : id <= nextOrderId}

\* The orders a caller constructs with the engine's symbol: a limit order of
\* any price and quantity, or a market order
EngineOrders(id) ==
    {Order(id, EngineSymbol, side, "LIMIT", p, q) :
        side \in {"BUY", "SELL"}, p \in Prices, q \in Quantities}
    \cup
    {MarketOrder(id, EngineSymbol, side, q) : side \in {"BUY", "SELL"}, q \in Quantities}

\* Orders for another symbol
ForeignOrders(id) ==
    {Order(id, OtherSymbol, side, "LIMIT", p, q) :
        side \in {"BUY"}, p \in {Min(Prices)}, q \in {Max(Quantities)}}
    \cup
    {MarketOrder(id, OtherSymbol, side, q) : side \in {"SELL"}, q \in {Max(Quantities)}}

CallerOrders(id) == EngineOrders(id) \cup ForeignOrders(id)

\* The record of a call and the state it ended in
Returned(op, handle, id, price, quantity, ret, trades, s) ==
    Commit(s, [op |-> op, handle |-> handle, id |-> id, price |-> price,
               quantity |-> quantity, ret |-> ret, trades |-> trades, log |-> s.log])

SubmitReturned(h, o, r) ==
    Returned("submitOrder", h, o.id, o.price, o.quantity, TRUE, r.trades, r.s)

BookReturned(op, handle, id, price, quantity, r) ==
    Returned(op, handle, id, price, quantity, r.ret, <<>>, r.s)

\* The caller's new order o placed at handle h of state c
WithOrder(c, h, o) == [c EXCEPT !.heap = MapPut(@, h, o)]

\* engine.submitOrder(std::make_shared<Order>(...)) from state c
SubmitFrom(c) ==
    \E id \in CallerIds : \E o \in CallerOrders(id) :
        SubmitReturned(AllocHandle(c.heap), o,
                       submitOrder(WithOrder(c, AllocHandle(c.heap), o),
                                   AllocHandle(c.heap)))

SubmitOrder ==
    /\ opCount < MaxOps
    /\ SubmitFrom(Cur)

\* engine.cancelOrder(orderId) from state c
CancelFrom(c) ==
    \E orderId \in CallerIds :
        BookReturned("cancelOrder", getOrder(c, orderId), orderId, 0, 0,
                     cancelOrder(c, orderId))

CancelOrder ==
    /\ opCount < MaxOps
    /\ CancelFrom(Cur)

\* engine.modifyOrder(orderId, newPrice, newQuantity) from state c
ModifyFrom(c) ==
    \E orderId \in CallerIds, newPrice \in Prices, newQuantity \in Quantities :
        BookReturned("modifyOrder", getOrder(c, orderId), orderId, newPrice,
                     newQuantity, modifyOrder(c, orderId, newPrice, newQuantity))

ModifyOrder ==
    /\ opCount < MaxOps
    /\ ModifyFrom(Cur)

\* book.addOrder(std::make_shared<Order>(...)) on the book itself, from state c
AddFrom(c) ==
    \E id \in CallerIds : \E o \in CallerOrders(id) :
        /\ o.type = "LIMIT"
        /\ BookReturned("addOrder", AllocHandle(c.heap), o.id, o.price, o.quantity,
                        OrderBook_addOrder(WithOrder(c, AllocHandle(c.heap), o),
                                           AllocHandle(c.heap)))

AddOrder ==
    /\ opCount < MaxOps
    /\ AddFrom(Cur)

\* The engine's API
Next == SubmitOrder \/ CancelOrder \/ ModifyOrder

Spec == Init /\ [][Next]_vars

\* The book's own API (an OrderBook driven directly)
NextBook == AddOrder \/ CancelOrder \/ ModifyOrder

SpecBook == Init /\ [][NextBook]_vars

\* The engine's API together with its book, which getOrderBook() hands out
\* by non-const reference
NextAll == SubmitOrder \/ AddOrder \/ CancelOrder \/ ModifyOrder

SpecAll == Init /\ [][NextAll]_vars

\* ------------------------------------------------------------------ risk actions
\* The manager as the variables hold it
RiskCur ==
    [limits |-> limits, positions |-> positions, dailyPnL |-> dailyPnL,
     peakEquity |-> peakEquity, currentEquity |-> currentEquity]

\* The state after a RiskManager call that left the manager as rm
RiskCommit(rm, call) ==
    /\ limits' = rm.limits
    /\ positions' = rm.positions
    /\ dailyPnL' = rm.dailyPnL
    /\ peakEquity' = rm.peakEquity
    /\ currentEquity' = rm.currentEquity
    /\ riskCall' = call
    /\ opCount' = opCount + 1
    /\ UNCHANGED <<heap, bids, asks, orderMap, stats, nextOrderId, lastCall>>
    /\ UNCHANGED utilVars
    /\ UNCHANGED hostThreads

RiskReturned(op, symbol, side, type, price, quantity, currentPrice, ret, before, rm) ==
    RiskCommit(rm, [op |-> op, symbol |-> symbol, side |-> side, type |-> type,
                    price |-> price, quantity |-> quantity,
                    currentPrice |-> currentPrice, ret |-> ret, before |-> before])

\* The limits a host constructs its manager with: small ones, in the manner
\* of testRiskManagement, and the same with a daily loss limit above the
\* drawdown limit
TightLimits ==
    [RiskLimits EXCEPT !.maxOrderSize = 200, !.maxOrderValue = Double(30000),
                       !.maxPositionSize = 300, !.maxPositionValue = Double(45000),
                       !.maxDailyLoss = Double(200), !.maxDrawdown = Double(200)]
LooseLossLimits == [TightLimits EXCEPT !.maxDailyLoss = Double(1000)]
LimitsChoices == {TightLimits, LooseLossLimits}

\* Prices and quantities of the trades and orders the manager is given
RiskPrices == {15000, 15200}
TradeQuantities == {0, 100, 200}
OrderQuantities == {100, 200, 300}
RiskSymbols == {EngineSymbol, OtherSymbol}

\* A trade as a host hands it to the ledger
TradeOn(symbol, price, quantity) == [Trade(1, 2, price, quantity) EXCEPT !.symbol = symbol]

\* The (trade, aggressor side) pairs the ledger is given
LedgerTrades ==
    {[trade |-> TradeOn(EngineSymbol, p, q), side |-> side] :
        p \in RiskPrices, q \in TradeQuantities, side \in {"BUY", "SELL"}}
    \cup
    {[trade |-> TradeOn(OtherSymbol, Min(RiskPrices), 100), side |-> "BUY"]}

\* The (order, currentPrice) pairs the validator is given: limit orders with
\* the default currentPrice, market orders with the current price
ValidatedOrders ==
    {[order |-> Order(1, EngineSymbol, side, "LIMIT", p, q), currentPrice |-> Zero] :
        side \in {"BUY", "SELL"}, p \in RiskPrices, q \in OrderQuantities}
    \cup
    {[order |-> MarketOrder(1, EngineSymbol, side, q), currentPrice |-> priceToDouble(p)] :
        side \in {"BUY", "SELL"}, p \in RiskPrices, q \in OrderQuantities}
    \cup
    {[order |-> Order(1, OtherSymbol, "BUY", "LIMIT", Min(RiskPrices), 100),
      currentPrice |-> Zero]}

ValidateReturned(rm, order, currentPrice, r) ==
    RiskReturned("validateOrder", order.symbol, order.side, order.type, order.price,
                 order.quantity, currentPrice, r.ret, rm, r.rm)

\* riskMgr.validateOrder(order, currentPrice)
ValidateFrom(rm) ==
    \E v \in ValidatedOrders :
        ValidateReturned(rm, v.order, v.currentPrice,
                         validateOrder(rm, v.order, v.currentPrice))

ValidateOrder ==
    /\ opCount < MaxRiskOps
    /\ ValidateFrom(RiskCur)

\* riskMgr.updatePosition(trade, side)
UpdatePositionFrom(rm) ==
    \E t \in LedgerTrades :
        RiskReturned("updatePosition", t.trade.symbol, t.side, "", t.trade.price,
                     t.trade.quantity, Zero, "", rm,
                     updatePosition(rm, t.trade, t.side))

UpdatePosition ==
    /\ opCount < MaxRiskOps
    /\ UpdatePositionFrom(RiskCur)

\* riskMgr.updateUnrealizedPnL(symbol, currentPrice)
UpdateUnrealizedFrom(rm) ==
    \E symbol \in RiskSymbols, p \in RiskPrices :
        RiskReturned("updateUnrealizedPnL", symbol, "", "", 0, 0, priceToDouble(p),
                     "", rm, updateUnrealizedPnL(rm, symbol, priceToDouble(p)))

UpdateUnrealizedPnL ==
    /\ opCount < MaxRiskOps
    /\ UpdateUnrealizedFrom(RiskCur)

\* riskMgr.resetDaily()
ResetDailyFrom(rm) ==
    RiskReturned("resetDaily", "", "", "", 0, 0, Zero, "", rm, resetDaily(rm))

ResetDaily ==
    /\ opCount < MaxRiskOps
    /\ ResetDailyFrom(RiskCur)

\* A RiskManager constructed with one of the limits, beside an idle engine
InitRisk ==
    /\ EngineInit
    /\ \E lim \in LimitsChoices : RiskIs(RiskManager(lim))
    /\ UtilsInit

NextRisk == ValidateOrder \/ UpdatePosition \/ UpdateUnrealizedPnL \/ ResetDaily

SpecRisk == InitRisk /\ [][NextRisk]_vars

\* ------------------------------------------------------------------ ring actions
\* The engine and the RiskManager stay as constructed
EngineIdle ==
    UNCHANGED <<heap, bids, asks, orderMap, stats, nextOrderId, lastCall, opCount,
                limits, positions, dailyPnL, peakEquity, currentEquity, riskCall>>

\* Everything but the LockFreeQueue and its threads stays as constructed
RingFrame ==
    /\ EngineIdle
    /\ UNCHANGED <<mpsc, mpscThreads, pool, poolThreads, hostThreads>>

\* tryPush(item), lines 27-28: the producer loads tail_ and computes nextTail;
\* the items are 1, 2, ... in call order
PushLoadTail ==
    /\ ringThreads.producer.pc = "idle"
    /\ ringThreads.pushCalls < MaxPushCalls
    /\ ringThreads' =
           [ringThreads EXCEPT !.pushCalls = @ + 1,
                               !.producer = [pc |-> "loadedTail",
                                             item |-> ringThreads.pushCalls + 1,
                                             currentTail |-> ring.tail,
                                             nextTail |-> NextIndex(ring.tail)]]
    /\ UNCHANGED ring
    /\ RingFrame

\* tryPush, lines 30-32: the producer loads head_ and returns false when full
PushLoadHead ==
    /\ ringThreads.producer.pc = "loadedTail"
    /\ ringThreads' =
           [ringThreads EXCEPT !.producer.pc =
               IF RingFull(ringThreads.producer.nextTail, ring.head)
               THEN "idle" ELSE "checked"]
    /\ UNCHANGED ring
    /\ RingFrame

\* tryPush, line 34: buffer_[currentTail] = item
PushWrite ==
    /\ ringThreads.producer.pc = "checked"
    /\ ring' = [ring EXCEPT !.buffer[ringThreads.producer.currentTail] =
                                ringThreads.producer.item]
    /\ ringThreads' = [ringThreads EXCEPT !.producer.pc = "written"]
    /\ RingFrame

\* tryPush, lines 35-36: tail_.store(nextTail), return true
PushStoreTail ==
    /\ ringThreads.producer.pc = "written"
    /\ ring' = [ring EXCEPT !.tail = ringThreads.producer.nextTail]
    /\ ringThreads' = [ringThreads EXCEPT !.producer.pc = "idle",
                                          !.pushed = Append(@, ringThreads.producer.item)]
    /\ RingFrame

\* tryPop(item), line 60: the consumer loads head_
PopLoadHead ==
    /\ ringThreads.consumer.pc = "idle"
    /\ ringThreads.popCalls < MaxPopCalls
    /\ ringThreads' =
           [ringThreads EXCEPT !.popCalls = @ + 1,
                               !.consumer = [pc |-> "loadedHead", item |-> 0,
                                             currentHead |-> ring.head]]
    /\ UNCHANGED ring
    /\ RingFrame

\* tryPop, lines 62-64: the consumer loads tail_ and returns false when empty
PopLoadTail ==
    /\ ringThreads.consumer.pc = "loadedHead"
    /\ ringThreads' =
           [ringThreads EXCEPT !.consumer.pc =
               IF RingEmpty(ringThreads.consumer.currentHead, ring.tail)
               THEN "idle" ELSE "checked"]
    /\ UNCHANGED ring
    /\ RingFrame

\* tryPop, line 66: item = std::move(buffer_[currentHead])
PopRead ==
    /\ ringThreads.consumer.pc = "checked"
    /\ \E v \in SlotValues(ring.buffer[ringThreads.consumer.currentHead]) :
           ringThreads' = [ringThreads EXCEPT !.consumer.pc = "read",
                                              !.consumer.item = v]
    /\ UNCHANGED ring
    /\ RingFrame

\* tryPop, lines 67-68: head_.store(next index), return true
PopStoreHead ==
    /\ ringThreads.consumer.pc = "read"
    /\ ring' = [ring EXCEPT !.head = NextIndex(ringThreads.consumer.currentHead)]
    /\ ringThreads' = [ringThreads EXCEPT !.consumer.pc = "idle",
                                          !.popped = Append(@, ringThreads.consumer.item)]
    /\ RingFrame

\* One producer thread and one consumer thread on one queue
NextRing ==
    \/ PushLoadTail \/ PushLoadHead \/ PushWrite \/ PushStoreTail
    \/ PopLoadHead \/ PopLoadTail \/ PopRead \/ PopStoreHead

SpecRing == Init /\ [][NextRing]_vars

\* ------------------------------------------------------------------ MPSC actions
\* Everything but the MPSCQueue and its threads stays as constructed
MPSCFrame ==
    /\ EngineIdle
    /\ UNCHANGED <<ring, ringThreads, pool, poolThreads, hostThreads>>

\* push(item), lines 147 and 188: new Node(item), prevTail = tail_.exchange(newNode)
MPSCPushExchange(p) ==
    /\ mpscThreads.producers[p].pc = "idle"
    /\ mpscThreads.producers[p].pushes < MaxPushes
    /\ mpsc' = Exchange(mpsc, ItemOf(p, mpscThreads.producers[p].pushes + 1))
    /\ mpscThreads' =
           [mpscThreads EXCEPT
               !.producers[p] = [pc |-> "exchanged", pushes |-> @.pushes + 1,
                                 newNode |-> mpsc.allocated, prevTail |-> mpsc.tail],
               !.exchanged = @ \cup {ItemOf(p, mpscThreads.producers[p].pushes + 1)}]
    /\ MPSCFrame

\* push, line 189: prevTail->next.store(newNode), and push returns
MPSCPushLink(p) ==
    /\ mpscThreads.producers[p].pc = "exchanged"
    /\ mpsc' = Link(mpsc, mpscThreads.producers[p].prevTail, mpscThreads.producers[p].newNode)
    /\ mpscThreads' =
           [mpscThreads EXCEPT
               !.producers[p].pc = "idle",
               !.completed = @ \cup {ItemOf(p, mpscThreads.producers[p].pushes)},
               !.misuse = @ \/ mpscThreads.producers[p].prevTail \in mpsc.freed]
    /\ MPSCFrame

\* tryPop, lines 160-165: load head_, load head->next, return false when null
MPSCPopLoad ==
    /\ mpscThreads.consumer.pc = "idle"
    /\ mpscThreads' =
           [mpscThreads EXCEPT
               !.consumer =
                   IF mpsc.nodes[mpsc.head].next = NullNode
                   THEN [pc |-> "idle", head |-> NullNode, next |-> NullNode,
                         ret |-> "false"]
                   ELSE [pc |-> "loaded", head |-> mpsc.head,
                         next |-> mpsc.nodes[mpsc.head].next, ret |-> @.ret],
               !.misuse = @ \/ mpsc.head \in mpsc.freed]
    /\ UNCHANGED mpsc
    /\ MPSCFrame

\* tryPop, lines 167-168: item = std::move(next->data), head_.store(next)
MPSCPopTake ==
    /\ mpscThreads.consumer.pc = "loaded"
    /\ mpsc' = [mpsc EXCEPT !.head = mpscThreads.consumer.next]
    /\ mpscThreads' =
           [mpscThreads EXCEPT
               !.consumer.pc = "taken",
               !.popped = Append(@, mpsc.nodes[PoppedNode(mpscThreads.consumer.head,
                                                          mpscThreads.consumer.next)].data),
               !.misuse = @ \/ mpscThreads.consumer.next \in mpsc.freed]
    /\ MPSCFrame

\* tryPop, lines 169-171: delete head, return true
MPSCPopDelete ==
    /\ mpscThreads.consumer.pc = "taken"
    /\ mpsc' = [mpsc EXCEPT !.freed = @ \cup {mpscThreads.consumer.head}]
    /\ mpscThreads' =
           [mpscThreads EXCEPT
               !.consumer = [pc |-> "idle", head |-> NullNode, next |-> NullNode,
                             ret |-> "true"]]
    /\ MPSCFrame

\* The single consumer's steps
MPSCConsumer == MPSCPopLoad \/ MPSCPopTake \/ MPSCPopDelete

\* Several producer threads and one consumer thread on one queue
NextMPSC ==
    \/ \E p \in Producers : MPSCPushExchange(p)
    \/ \E p \in Producers : MPSCPushLink(p)
    \/ MPSCPopLoad
    \/ MPSCPopTake
    \/ MPSCPopDelete

SpecMPSC == Init /\ [][NextMPSC]_vars

\* The consumer thread keeps running: a step of it that stays possible is taken
SpecMPSCFair == SpecMPSC /\ WF_vars(MPSCConsumer)

\* ------------------------------------------------------------------ pool actions
\* Everything but the MemoryPool and its threads stays as constructed
PoolFrame ==
    /\ EngineIdle
    /\ UNCHANGED <<ring, ringThreads, mpsc, mpscThreads, hostThreads>>

\* The slots some thread holds
HeldSlots == UNION {poolThreads.threads[t].holds : t \in PoolThreads}

\* allocate(), line 60: node = head_.load(); also the retry of line 74
AllocLoadHead(t) ==
    /\ \/ /\ poolThreads.threads[t].pc = "idle"
          /\ poolThreads.threads[t].calls < MaxPoolCalls
          /\ poolThreads' = [poolThreads EXCEPT !.threads[t].calls = @ + 1,
                                                !.threads[t].pc = "loop",
                                                !.threads[t].node = pool.head]
       \/ /\ poolThreads.threads[t].pc = "retry"
          /\ poolThreads' = [poolThreads EXCEPT !.threads[t].pc = "loop",
                                                !.threads[t].node = pool.head]
    /\ UNCHANGED pool
    /\ PoolFrame

\* allocate(), lines 63-64: while (node != nullptr) { next = node->next;
AllocReadNext(t) ==
    /\ poolThreads.threads[t].pc = "loop"
    /\ poolThreads.threads[t].node # NullSlot
    /\ \E link \in LinksRead(pool.content[poolThreads.threads[t].node]) :
           poolThreads' = [poolThreads EXCEPT !.threads[t].pc = "cas",
                                              !.threads[t].next = link]
    /\ UNCHANGED pool
    /\ PoolFrame

\* allocate(), lines 65-68: head_.compare_exchange_weak(node, next) succeeds
\* and &node->data is returned; the caller's object takes the slot
AllocCasSucceeds(t) ==
    /\ poolThreads.threads[t].pc = "cas"
    /\ pool.head = poolThreads.threads[t].node
    /\ pool' = [pool EXCEPT !.head = poolThreads.threads[t].next,
                            !.content[poolThreads.threads[t].node] = NotALink]
    /\ poolThreads' =
           [poolThreads EXCEPT
               !.threads[t].pc = "idle",
               !.threads[t].holds = @ \cup {poolThreads.threads[t].node},
               !.twice = @ \/ poolThreads.threads[t].node \in HeldSlots]
    /\ PoolFrame

\* allocate(), lines 65-69: the compare-exchange fails, because head_ has
\* changed or spuriously, and loads head_ into node
AllocCasFails(t) ==
    /\ poolThreads.threads[t].pc = "cas"
    /\ poolThreads' = [poolThreads EXCEPT !.threads[t].pc = "loop",
                                          !.threads[t].node = pool.head]
    /\ UNCHANGED pool
    /\ PoolFrame

\* allocate(), line 73, and allocateBlock, lines 140-153: the free list was
\* empty; a new block is built, its last node linked to the head loaded now
AllocNewBlock(t) ==
    /\ poolThreads.threads[t].pc = "loop"
    /\ poolThreads.threads[t].node = NullSlot
    /\ pool.blocks < MaxBlocks
    /\ pool' = NewBlock(pool, pool.blocks, pool.head)
    /\ poolThreads' = [poolThreads EXCEPT !.threads[t].pc = "built",
                                          !.threads[t].block = pool.blocks]
    /\ PoolFrame

\* allocateBlock, line 156: head_.store(&newBlock->nodes[0]); then line 74
AllocPublishBlock(t) ==
    /\ poolThreads.threads[t].pc = "built"
    /\ pool' = PublishBlock(pool, poolThreads.threads[t].block)
    /\ poolThreads' = [poolThreads EXCEPT !.threads[t].pc = "retry"]
    /\ PoolFrame

\* deallocate(nullptr), line 81
DeallocNull(t) ==
    /\ poolThreads.threads[t].pc = "idle"
    /\ poolThreads.threads[t].calls < MaxPoolCalls
    /\ poolThreads' = [poolThreads EXCEPT !.threads[t].calls = @ + 1]
    /\ UNCHANGED pool
    /\ PoolFrame

\* deallocate(ptr), lines 83-84: a slot the thread holds; oldHead = head_.load()
DeallocLoadHead(t) ==
    /\ poolThreads.threads[t].pc = "idle"
    /\ poolThreads.threads[t].calls < MaxPoolCalls
    /\ \E ptr \in poolThreads.threads[t].holds :
           poolThreads' = [poolThreads EXCEPT !.threads[t].calls = @ + 1,
                                              !.threads[t].pc = "link",
                                              !.threads[t].node = ptr,
                                              !.threads[t].next = pool.head,
                                              !.threads[t].holds = @ \ {ptr}]
    /\ UNCHANGED pool
    /\ PoolFrame

\* deallocate, line 88: node->next = oldHead
DeallocLink(t) ==
    /\ poolThreads.threads[t].pc = "link"
    /\ pool' = [pool EXCEPT !.content[poolThreads.threads[t].node] =
                                poolThreads.threads[t].next]
    /\ poolThreads' = [poolThreads EXCEPT !.threads[t].pc = "push"]
    /\ PoolFrame

\* deallocate, lines 89-91: head_.compare_exchange_weak(oldHead, node) succeeds
DeallocCasSucceeds(t) ==
    /\ poolThreads.threads[t].pc = "push"
    /\ pool.head = poolThreads.threads[t].next
    /\ pool' = [pool EXCEPT !.head = poolThreads.threads[t].node]
    /\ poolThreads' = [poolThreads EXCEPT !.threads[t].pc = "idle"]
    /\ PoolFrame

\* deallocate, lines 89-91: the compare-exchange fails and loads head_ into
\* oldHead; the loop links again
DeallocCasFails(t) ==
    /\ poolThreads.threads[t].pc = "push"
    /\ poolThreads' = [poolThreads EXCEPT !.threads[t].pc = "link",
                                          !.threads[t].next = pool.head]
    /\ UNCHANGED pool
    /\ PoolFrame

\* Several threads allocating from and deallocating to one pool
NextPool ==
    \/ \E t \in PoolThreads : AllocLoadHead(t)
    \/ \E t \in PoolThreads : AllocReadNext(t)
    \/ \E t \in PoolThreads : AllocCasSucceeds(t)
    \/ \E t \in PoolThreads : AllocCasFails(t)
    \/ \E t \in PoolThreads : AllocNewBlock(t)
    \/ \E t \in PoolThreads : AllocPublishBlock(t)
    \/ \E t \in PoolThreads : DeallocNull(t)
    \/ \E t \in PoolThreads : DeallocLoadHead(t)
    \/ \E t \in PoolThreads : DeallocLink(t)
    \/ \E t \in PoolThreads : DeallocCasSucceeds(t)
    \/ \E t \in PoolThreads : DeallocCasFails(t)

SpecPool == Init /\ [][NextPool]_vars

\* ------------------------------------------------------------------ host actions
\* The utilities are not used by the hosts
HostFrame == UNCHANGED utilVars

\* A thread calls engine.submitOrder(order): nothing in the hosts or in the
\* engine makes it wait for a call in progress
HostEnterSubmit(t) ==
    /\ hostThreads[t].pc = "outside"
    /\ opCount + Cardinality(HostWriters(hostThreads)) < MaxOps
    /\ hostThreads' = [hostThreads EXCEPT ![t] = [pc |-> "submitOrder", entry |-> Cur]]
    /\ EngineIdle
    /\ HostFrame

\* engine.submitOrder(o) of thread t returns r, the order at handle h
HostReturned(t, h, o, r) ==
    /\ CommitEngine(r.s, [op |-> "submitOrder", handle |-> h, id |-> o.id,
                          price |-> o.price, quantity |-> o.quantity, ret |-> TRUE,
                          trades |-> r.trades, log |-> r.s.log])
    /\ hostThreads' = [hostThreads EXCEPT ![t] = HostOutside]

\* The submitOrder execution of thread t completes with order o, from base
HostSubmitFrom(t, o, base) ==
    HostReturned(t, AllocHandle(base.heap), o,
                 submitOrder(WithOrder(base, AllocHandle(base.heap), o),
                             AllocHandle(base.heap)))

\* engine.submitOrder returns in thread t
HostLeaveSubmit(t) ==
    /\ hostThreads[t].pc = "submitOrder"
    /\ \E o \in HostOrders(nextOrderId) :
           \E base \in HostBases(Cur, hostThreads[t].entry) :
               HostSubmitFrom(t, o, base)

\* A thread starts reading the book: engine.getOrderBook(), getBidDepth
HostEnterRead(t) ==
    /\ hostThreads[t].pc = "outside"
    /\ hostThreads' = [hostThreads EXCEPT ![t] = [pc |-> "readBook", entry |-> NoEntry]]
    /\ EngineIdle
    /\ HostFrame

\* The read of the book ends
HostLeaveRead(t) ==
    /\ hostThreads[t].pc = "readBook"
    /\ hostThreads' = [hostThreads EXCEPT ![t] = HostOutside]
    /\ EngineIdle
    /\ HostFrame

\* The threads of a host program
NextHost ==
    \/ \E t \in HostThreads : HostEnterSubmit(t)
    \/ \E t \in HostThreads : HostLeaveSubmit(t)
    \/ \E t \in HostThreads : HostEnterRead(t)
    \/ \E t \in HostThreads : HostLeaveRead(t)

SpecHost == Init /\ [][NextHost]_vars

\* ------------------------------------------------------------------ properties
\* What the formulas below read of the last call.
\* A step of Next / NextBook is one completed call.
CallMade == opCount' = opCount + 1

\* The order object the caller passed to the last submitOrder / addOrder
Submitted == heap[lastCall.handle]

SumQty(trades) == SumSeq([i \in 1..Len(trades) |-> trades[i].quantity])

\* The side an aggressor of that side trades against, and its top of book
Opposite(side, bidMap, askMap) == IF side = "BUY" THEN askMap ELSE bidMap
Top(side, bidMap, askMap) ==
    IF side = "BUY" THEN Min(DOMAIN askMap) ELSE Max(DOMAIN bidMap)
Satisfies(side, top, limit) == IF side = "BUY" THEN top <= limit ELSE top >= limit
RestingId(side, trade) == IF side = "BUY" THEN trade.sellOrderId ELSE trade.buyOrderId

\* Every order queued on the book has remaining quantity > 0
AllRestingPositive ==
    \A h \in LevelHandles(bids) \cup LevelHandles(asks) : heap[h].remainingQuantity > 0

\* C1. Non-crossed book: whenever both sides are non-empty, bestBid < bestAsk.
C1_NonCrossedBook ==
    (DOMAIN bids # {} /\ DOMAIN asks # {}) => Max(DOMAIN bids) < Min(DOMAIN asks)

\* The submitted LIMIT order is marketable in the state the call starts from:
\* engine symbol, fresh id, quantity > 0, opposite top of book within its limit
MarketableLimitSubmitted ==
    /\ CallMade
    /\ lastCall'.op = "submitOrder"
    /\ Submitted'.type = "LIMIT"
    /\ Submitted'.symbol = EngineSymbol
    /\ Submitted'.quantity > 0
    /\ Submitted'.id \notin DOMAIN orderMap
    /\ AllRestingPositive
    /\ DOMAIN Opposite(Submitted'.side, bids, asks) # {}
    /\ Satisfies(Submitted'.side, Top(Submitted'.side, bids, asks), Submitted'.price)

\* After the call the order is filled or the top of book no longer satisfies it
MatchedToExhaustion ==
    \/ Submitted.remainingQuantity = 0
    \/ DOMAIN Opposite(Submitted.side, bids, asks) = {}
    \/ ~Satisfies(Submitted.side, Top(Submitted.side, bids, asks), Submitted.price)

\* SELL LIMIT 150.00 x 100 (id 1) rests alone; BUY LIMIT 150.00 x 100 (id 2) arrives
SimpleCrossSubmitted ==
    /\ CallMade
    /\ lastCall'.op = "submitOrder"
    /\ DOMAIN bids = {} /\ DOMAIN asks = {15000}
    /\ Len(asks[15000].orders) = 1
    /\ heap[asks[15000].orders[1]] = Order(1, EngineSymbol, "SELL", "LIMIT", 15000, 100)
    /\ Submitted' = [Order(2, EngineSymbol, "BUY", "LIMIT", 15000, 100)
                        EXCEPT !.remainingQuantity = Submitted'.remainingQuantity,
                               !.status = Submitted'.status]

\* C2. A marketable LIMIT order trades: submitOrder returns at least one trade
\* and matches until the order is filled or the top of book no longer
\* satisfies its limit; the simple cross returns the single trade
\* (buy 2, sell 1, 150.00, 100) and leaves the book empty.
C2_MarketableLimitTrades ==
    [][ /\ MarketableLimitSubmitted =>
            (lastCall'.trades # <<>> /\ MatchedToExhaustion')
        /\ SimpleCrossSubmitted =>
            /\ lastCall'.trades = <<Trade(2, 1, 15000, 100)>>
            /\ DOMAIN bids' = {} /\ DOMAIN asks' = {} /\ DOMAIN orderMap' = {}
      ]_vars

\* Quantity the trades before index k took from the resting order with that id
TakenBefore(trades, side, id, k) ==
    SumSeq([i \in 1..(k - 1) |->
               IF RestingId(side, trades[i]) = id THEN trades[i].quantity ELSE 0])

\* Within each level of the side the aggressor trades against (as it was when
\* the call started), a later order is traded with only after every earlier
\* one has been filled completely
FifoRespected(side, trades) ==
    LET opp == Opposite(side, bids, asks)
    IN  \A p \in DOMAIN opp : \A i, j \in 1..Len(opp[p].orders) :
           i < j =>
              \A k \in 1..Len(trades) :
                 RestingId(side, trades[k]) = heap[opp[p].orders[j]].id =>
                    TakenBefore(trades, side, heap[opp[p].orders[i]].id, k)
                        = heap[opp[p].orders[i]].remainingQuantity

\* Two or more SELL LIMIT 150.00 x 100 rest at the best ask in arrival order and
\* a BUY LIMIT 150.00 x 100 with a fresh id arrives
PriorityExampleSubmitted ==
    /\ CallMade
    /\ lastCall'.op = "submitOrder"
    /\ DOMAIN asks # {} /\ Min(DOMAIN asks) = 15000
    /\ Len(asks[15000].orders) >= 2
    /\ \A i \in 1..Len(asks[15000].orders) :
          /\ heap[asks[15000].orders[i]].remainingQuantity = 100
          /\ heap[asks[15000].orders[i]].quantity = 100
    /\ Submitted'.id \notin DOMAIN orderMap
    /\ Submitted'.symbol = EngineSymbol /\ Submitted'.type = "LIMIT"
    /\ Submitted'.side = "BUY" /\ Submitted'.price = 15000
    /\ Submitted'.quantity = 100

\* C3. Price-time priority: an aggressor never trades with B while an order A
\* queued before B at the same price still has remaining quantity; with equal
\* SELL LIMIT 150.00 x 100 orders resting, BUY LIMIT 150.00 x 100 produces a
\* single trade, against the one that arrived first.
C3_PriceTimePriority ==
    [][ /\ (CallMade /\ lastCall'.op = "submitOrder") =>
            FifoRespected(Submitted'.side, lastCall'.trades)
        /\ PriorityExampleSubmitted =>
            /\ Len(lastCall'.trades) = 1
            /\ lastCall'.trades[1].sellOrderId = heap[asks[15000].orders[1]].id
      ]_vars

\* The resting orders an aggressor of that side meets, best price first and
\* FIFO inside a level, as <<id, price, remaining>>
RECURSIVE Liquidity(_, _, _)
Liquidity(side, opp, hp) ==
    IF DOMAIN opp = {} THEN <<>>
    ELSE LET p == IF side = "BUY" THEN Min(DOMAIN opp) ELSE Max(DOMAIN opp)
         IN  [i \in 1..Len(opp[p].orders) |->
                 <<hp[opp[p].orders[i]].id, p, hp[opp[p].orders[i]].remainingQuantity>>]
             \o Liquidity(side, MapErase(opp, p), hp)

\* The trades of a sweep of quantity qty by aggressor id over that liquidity
RECURSIVE Sweep(_, _, _, _)
Sweep(side, id, qty, liq) ==
    IF qty = 0 \/ liq = <<>> THEN <<>>
    ELSE LET r == Head(liq)
             f == MinQ(qty, r[3])
         IN  <<IF side = "BUY" THEN Trade(id, r[1], r[2], f) ELSE Trade(r[1], id, r[2], f)>>
             \o Sweep(side, id, qty - f, Tail(liq))

\* C4. Market sweep: a MARKET order consumes the opposite side from the best
\* price outward, FIFO inside a level, one trade per matched pair at the
\* resting order's price for min(aggressor remaining, resting remaining), until
\* it is filled or the opposite side is empty.
C4_MarketSweep ==
    [][ (/\ CallMade
         /\ lastCall'.op = "submitOrder"
         /\ Submitted'.type = "MARKET"
         /\ Submitted'.symbol = EngineSymbol
         /\ AllRestingPositive)
        => lastCall'.trades =
              Sweep(Submitted'.side, Submitted'.id, Submitted'.quantity,
                    Liquidity(Submitted'.side,
                              Opposite(Submitted'.side, bids, asks), heap))
      ]_vars

\* C5. Quantity conservation: the quantities of the trades a submitOrder call
\* returns sum to at most the order's original quantity, and to exactly the
\* original quantity if and only if the order's status after the call is FILLED.
C5_QuantityConservation ==
    lastCall.op = "submitOrder" =>
        /\ SumQty(lastCall.trades) <= Submitted.quantity
        /\ (SumQty(lastCall.trades) = Submitted.quantity) <=> (Submitted.status = "FILLED")

\* The price of the order that rested with that id when the call started
RestingPrice(id) == heap[orderMap[id]].price

\* C6. Price improvement: every trade of a LIMIT aggressor is priced at the
\* resting order's price, within the aggressor's limit; a BUY LIMIT 150.00
\* meeting a lone SELL at 149.50 trades at 149.50.
C6_PriceImprovement ==
    [][ /\ (CallMade /\ lastCall'.op = "submitOrder" /\ Submitted'.type = "LIMIT") =>
            \A k \in 1..Len(lastCall'.trades) :
               LET tr == lastCall'.trades[k]
                   rid == RestingId(Submitted'.side, tr)
               IN  /\ rid \in DOMAIN orderMap
                   /\ tr.price = RestingPrice(rid)
                   /\ Satisfies(Submitted'.side, tr.price, Submitted'.price)
        /\ (/\ MarketableLimitSubmitted
            /\ Submitted'.side = "BUY" /\ Submitted'.price = 15000
            /\ DOMAIN asks = {14950}) =>
            (lastCall'.trades # <<>> /\ lastCall'.trades[1].price = 14950)
      ]_vars

\* The places <<side, price, position>> where an order with that id is queued
PlacesOn(sideName, side, id) ==
    UNION {{<<sideName, p, i>> :
               i \in {j \in 1..Len(side[p].orders) : heap[side[p].orders[j]].id = id}} :
           p \in DOMAIN side}

Places(id) == PlacesOn("BUY", bids, id) \cup PlacesOn("SELL", asks, id)

HandleAt(place) ==
    IF place[1] = "BUY" THEN bids[place[2]].orders[place[3]]
    ELSE asks[place[2]].orders[place[3]]

\* C7. Index consistency: an id is in the id index iff an order with that id is
\* queued in exactly one place of one price level, that level being on the
\* order's side and at the order's price and holding the indexed object; no id
\* is queued twice.
C7_IndexConsistency ==
    \A id \in OrderIds :
        /\ Cardinality(Places(id)) <= 1
        /\ (id \in DOMAIN orderMap) <=> (Cardinality(Places(id)) = 1)
        /\ id \in DOMAIN orderMap =>
              /\ heap[orderMap[id]].id = id
              /\ \A place \in Places(id) :
                    /\ HandleAt(place) = orderMap[id]
                    /\ heap[orderMap[id]].side = place[1]
                    /\ heap[orderMap[id]].price = place[2]

\* A modifyOrder has replaced one of at least two resting orders
C7_Witness ==
    /\ lastCall.op = "modifyOrder"
    /\ lastCall.ret
    /\ Cardinality(DOMAIN orderMap) >= 2
    /\ lastCall.handle \notin Range(orderMap)

RemainingAt(side, p) ==
    SumSeq([i \in 1..Len(side[p].orders) |-> heap[side[p].orders[i]].remainingQuantity])

RECURSIVE SumOver(_, _)
SumOver(S, f) ==
    IF S = {} THEN 0 ELSE f[Min(S)] + SumOver(S \ {Min(S)}, f)

\* C8. Level quantity: every level's cached totalQuantity is the sum of the
\* remaining quantities of the orders queued there, and the side totals
\* (getTotalBidQuantity / getTotalAskQuantity) are the sums over the side.
C8_LevelQuantity ==
    /\ \A p \in DOMAIN bids : bids[p].totalQuantity = RemainingAt(bids, p)
    /\ \A p \in DOMAIN asks : asks[p].totalQuantity = RemainingAt(asks, p)
    /\ getTotalBidQuantity([bids |-> bids])
          = SumOver(DOMAIN bids, [p \in DOMAIN bids |-> RemainingAt(bids, p)])
    /\ getTotalAskQuantity([asks |-> asks])
          = SumOver(DOMAIN asks, [p \in DOMAIN asks |-> RemainingAt(asks, p)])

\* C9. No empty level persists: every level in either map holds an order, so
\* bestBid / bestAsk name a price at which an order of that side rests.
C9_NoEmptyLevel ==
    /\ \A p \in DOMAIN bids : bids[p].orders # <<>>
    /\ \A p \in DOMAIN asks : asks[p].orders # <<>>
    /\ getBestBid([bids |-> bids]) # NoPrice =>
          \E h \in LevelHandles(bids) :
             heap[h].side = "BUY" /\ heap[h].price = getBestBid([bids |-> bids])
    /\ getBestAsk([asks |-> asks]) # NoPrice =>
          \E h \in LevelHandles(asks) :
             heap[h].side = "SELL" /\ heap[h].price = getBestAsk([asks |-> asks])

\* A cancel has removed the last order of a bid level while another bid level
\* remains
C9_Witness ==
    /\ lastCall.op = "cancelOrder"
    /\ lastCall.ret
    /\ heap[lastCall.handle].side = "BUY"
    /\ heap[lastCall.handle].price \notin DOMAIN bids
    /\ DOMAIN bids # {}

\* Where the submitted order is after the call: with remaining > 0, indexed
\* and last in the level at its price on its side, remaining = original minus
\* the traded quantity; with remaining = 0, neither indexed nor queued
ResidualOutcome ==
    LET o == Submitted
        own == IF o.side = "BUY" THEN bids ELSE asks
    IN  IF o.remainingQuantity > 0
        THEN /\ o.id \in DOMAIN orderMap
             /\ orderMap[o.id] = lastCall.handle
             /\ o.price \in DOMAIN own
             /\ own[o.price].orders[Len(own[o.price].orders)] = lastCall.handle
             /\ Cardinality(Places(o.id)) = 1
             /\ o.remainingQuantity = o.quantity - SumQty(lastCall.trades)
        ELSE /\ o.id \notin DOMAIN orderMap
             /\ lastCall.handle \notin LevelHandles(bids) \cup LevelHandles(asks)

\* A LIMIT order whose id is not on the book has just been submitted
FreshLimitSubmitted ==
    /\ CallMade
    /\ lastCall'.op = "submitOrder"
    /\ Submitted'.type = "LIMIT"
    /\ Submitted'.id \notin DOMAIN orderMap

\* C10 as stated. Residual rests at the tail: after submitOrder of a LIMIT order
\* with an id not already on the book, a positive residual is indexed and last
\* in the level at its limit price on its side; a zero residual is nowhere.
C10_ResidualAtTail_AsStated ==
    [][FreshLimitSubmitted => ResidualOutcome']_vars

\* C10 as amended: the same, for an order that carries the engine's symbol.
C10_ResidualAtTail ==
    [][(FreshLimitSubmitted /\ Submitted'.symbol = EngineSymbol) => ResidualOutcome']_vars

\* A submitted LIMIT order rests behind an order that was at its price before
C10_Witness ==
    /\ lastCall.op = "submitOrder"
    /\ Submitted.type = "LIMIT"
    /\ Submitted.symbol = EngineSymbol
    /\ Submitted.remainingQuantity > 0
    /\ lastCall.id \in DOMAIN orderMap
    /\ orderMap[lastCall.id] = lastCall.handle
    /\ LET own == IF Submitted.side = "BUY" THEN bids ELSE asks
       IN  /\ Submitted.price \in DOMAIN own
           /\ Len(own[Submitted.price].orders) >= 2
           /\ own[Submitted.price].orders[Len(own[Submitted.price].orders)]
                 = lastCall.handle

\* The aggregated quantity of the side an aggressor of that side trades against
OppositeTotal(side, bidMap, askMap) ==
    IF side = "BUY" THEN getTotalAskQuantity([asks |-> askMap])
    ELSE getTotalBidQuantity([bids |-> bidMap])

\* The order at the front of the level the aggressor of that side meets first
FrontOfTop(side, bidMap, askMap) ==
    getFrontOrder(Opposite(side, bidMap, askMap)[Top(side, bidMap, askMap)])

\* An order of the engine's symbol with a fresh id and quantity f > 0 is
\* submitted while the order at the front of the opposite top of book (within
\* the limit, for a LIMIT order) has remaining r > f
PartialFillSubmitted ==
    /\ CallMade
    /\ lastCall'.op = "submitOrder"
    /\ Submitted'.symbol = EngineSymbol
    /\ Submitted'.quantity > 0
    /\ Submitted'.id \notin DOMAIN orderMap
    /\ AllRestingPositive
    /\ DOMAIN Opposite(Submitted'.side, bids, asks) # {}
    /\ Submitted'.type = "LIMIT" =>
          Satisfies(Submitted'.side, Top(Submitted'.side, bids, asks), Submitted'.price)
    /\ heap[FrontOfTop(Submitted'.side, bids, asks)].remainingQuantity > Submitted'.quantity

\* C11. Partial fill of a resting order: an aggressor of quantity f meeting a
\* resting order of remaining r > f produces one trade of f; the resting order
\* stays indexed and at the front of its level with remaining r - f and status
\* PARTIALLY_FILLED, its level and side totals decrease by exactly f, and the
\* aggressor does not rest.
C11_PartialFillOfResting ==
    [][ PartialFillSubmitted =>
          LET side == Submitted'.side
              top == Top(side, bids, asks)
              fr == FrontOfTop(side, bids, asks)
              f == Submitted'.quantity
          IN  /\ Len(lastCall'.trades) = 1
              /\ lastCall'.trades[1].quantity = f
              /\ RestingId(side, lastCall'.trades[1]) = heap[fr].id
              /\ heap[fr].id \in DOMAIN orderMap'
              /\ orderMap'[heap[fr].id] = fr
              /\ top \in DOMAIN Opposite(side, bids', asks')
              /\ FrontOfTop(side, bids', asks') = fr
              /\ heap'[fr].remainingQuantity = heap[fr].remainingQuantity - f
              /\ heap'[fr].status = "PARTIALLY_FILLED"
              /\ Opposite(side, bids', asks')[top].totalQuantity
                    = Opposite(side, bids, asks)[top].totalQuantity - f
              /\ OppositeTotal(side, bids', asks') = OppositeTotal(side, bids, asks) - f
              /\ Submitted'.id \notin DOMAIN orderMap'
              /\ lastCall'.handle \notin LevelHandles(bids') \cup LevelHandles(asks')
      ]_vars

\* The order-update callback invocations of the last call that carry that id
UpdatesOf(id) ==
    SelectSeq(lastCall.log, LAMBDA e : e.kind = "orderUpdate" /\ e.id = id)

\* The status an aggressor of original quantity qty has after trading filled of it
StatusAfter(qty, filled) ==
    IF filled = 0 THEN "NEW"
    ELSE IF filled < qty THEN "PARTIALLY_FILLED" ELSE "FILLED"

\* The submitted order is on the book after the call: its id is indexed or
\* queued in a level, or the object itself is
SubmittedOnBook ==
    \/ Submitted.id \in DOMAIN orderMap
    \/ Places(Submitted.id) # {}
    \/ lastCall.handle \in Range(orderMap) \cup LevelHandles(bids) \cup LevelHandles(asks)

\* The aggressor's order-update callback ran once, reporting the status and
\* the remaining quantity its fills leave
AggressorReported ==
    /\ Len(UpdatesOf(Submitted.id)) = 1
    /\ UpdatesOf(Submitted.id)[1].status
          = StatusAfter(Submitted.quantity, SumQty(lastCall.trades))
    /\ UpdatesOf(Submitted.id)[1].remainingQuantity
          = Submitted.quantity - SumQty(lastCall.trades)

\* What C12 says of a MARKET order after its submitOrder
MarketOutcome ==
    /\ ~SubmittedOnBook
    /\ SumQty(lastCall.trades) < Submitted.quantity =>
          /\ AggressorReported
          /\ UpdatesOf(Submitted.id)[1].status \in {"PARTIALLY_FILLED", "NEW"}

\* C12 as stated. Market orders never rest: after submitOrder of a MARKET
\* order, whatever the book, the order's id is neither indexed nor queued, and
\* an unfilled residual is reported to the order-update callback with status
\* PARTIALLY_FILLED or NEW.
C12_MarketNeverRests_AsStated ==
    [][(CallMade /\ lastCall'.op = "submitOrder" /\ Submitted'.type = "MARKET")
          => MarketOutcome']_vars

\* C12 as amended: the same, for a MARKET order that carries the engine's
\* symbol and whose id no resting order holds.
C12_MarketNeverRests ==
    [][(/\ CallMade
        /\ lastCall'.op = "submitOrder"
        /\ Submitted'.type = "MARKET"
        /\ Submitted'.symbol = EngineSymbol
        /\ Submitted'.id \notin DOMAIN orderMap)
          => MarketOutcome']_vars

\* A MARKET order with quantity > 0 met a non-empty opposite side, was left
\* with a residual, and is not on the book
C12_Witness ==
    /\ lastCall.op = "submitOrder"
    /\ Submitted.type = "MARKET"
    /\ Submitted.symbol = EngineSymbol
    /\ Submitted.quantity > 0
    /\ SumQty(lastCall.trades) < Submitted.quantity
    /\ DOMAIN Opposite(Submitted.side, bids, asks) # {}
    /\ ~SubmittedOnBook
    /\ AggressorReported

\* The book is as it was before the step: id index, both price maps with every
\* level's queue and total, and every order object the book references
BookUnchanged ==
    /\ orderMap' = orderMap
    /\ bids' = bids
    /\ asks' = asks
    /\ \A h \in Range(orderMap) \cup LevelHandles(bids) \cup LevelHandles(asks) :
          h \in DOMAIN heap' /\ heap'[h] = heap[h]

\* C13. Operations on unknown ids are no-ops: cancelOrder(id) and
\* modifyOrder(id, p, q) for an id not on the book return false and leave the
\* id index, both price maps, every level and every resting order unchanged;
\* cancelling the same id twice returns true then false.
C13_UnknownIdNoOp ==
    [][ /\ (/\ CallMade
            /\ lastCall'.op \in {"cancelOrder", "modifyOrder"}
            /\ lastCall'.id \notin DOMAIN orderMap)
           => (~lastCall'.ret /\ BookUnchanged)
        /\ (/\ CallMade
            /\ lastCall.op = "cancelOrder" /\ lastCall.ret
            /\ lastCall'.op = "cancelOrder" /\ lastCall'.id = lastCall.id)
           => ~lastCall'.ret
      ]_vars

\* A cancelOrder or modifyOrder has just failed on an id that was issued
\* before, while other orders rest on the book
C13_Witness ==
    /\ lastCall.op \in {"cancelOrder", "modifyOrder"}
    /\ ~lastCall.ret
    /\ lastCall.id < nextOrderId
    /\ lastCall.id \notin DOMAIN orderMap
    /\ DOMAIN orderMap # {}

\* A level map without the object h: h leaves its queue, a level it leaves
\* empty is gone, the other queues keep their orders in their order
\* (cached totals aside, which C8 covers)
QueuesWithout(side, h) ==
    [p \in {q \in DOMAIN side : Range(side[q].orders) # {h}} |->
        SelectSeq(side[p].orders, LAMBDA g : g # h)]

Queues(side) == [p \in DOMAIN side |-> side[p].orders]

\* C14. cancelOrder(id) of a resting order returns true, leaves that order
\* CANCELLED with remaining 0 and out of the id index and of its level, and
\* leaves every other resting order's fields and FIFO position unchanged.
C14_CancelFrame ==
    [][ (/\ CallMade
         /\ lastCall'.op = "cancelOrder"
         /\ lastCall'.id \in DOMAIN orderMap)
        => LET h == orderMap[lastCall'.id]
           IN  /\ lastCall'.ret
               /\ lastCall'.handle = h
               /\ heap'[h].status = "CANCELLED"
               /\ heap'[h].remainingQuantity = 0
               /\ orderMap' = MapErase(orderMap, lastCall'.id)
               /\ h \notin LevelHandles(bids') \cup LevelHandles(asks')
               /\ Queues(bids') = QueuesWithout(bids, h)
               /\ Queues(asks') = QueuesWithout(asks, h)
               /\ \A g \in (Range(orderMap) \cup LevelHandles(bids)
                               \cup LevelHandles(asks)) \ {h} :
                     g \in DOMAIN heap' /\ heap'[g] = heap[g]
      ]_vars

\* A cancelOrder has removed one of several orders of a level, the others
\* still resting at that price
C14_Witness ==
    /\ lastCall.op = "cancelOrder"
    /\ lastCall.ret
    /\ heap[lastCall.handle].status = "CANCELLED"
    /\ LET own == IF heap[lastCall.handle].side = "BUY" THEN bids ELSE asks
       IN  /\ heap[lastCall.handle].price \in DOMAIN own
           /\ own[heap[lastCall.handle].price].orders # <<>>

\* The queue position, in the level at price p of that level map with the
\* objects of hp, of the order with that id (0 if it is not queued there);
\* a smaller position is matched earlier
PositionIn(side, hp, p, id) ==
    IF p \in DOMAIN side
    THEN FirstOf({i \in 1..Len(side[p].orders) : hp[side[p].orders[i]].id = id})
    ELSE 0

\* The ids queued at price p of that level map, front first
IdsIn(side, hp, p) ==
    IF p \in DOMAIN side
    THEN [i \in 1..Len(side[p].orders) |-> hp[side[p].orders[i]].id]
    ELSE <<>>

\* The level map of that side
SideMap(sideName, bidMap, askMap) == IF sideName = "BUY" THEN bidMap ELSE askMap

\* The last call was a successful modifyOrder and this step inserts, with a
\* fresh id, a LIMIT order of the same side at the price the modify chose,
\* which comes to rest
InsertedAfterModify ==
    /\ CallMade
    /\ lastCall.op = "modifyOrder" /\ lastCall.ret
    /\ lastCall.id \in DOMAIN orderMap
    /\ lastCall'.op = "submitOrder"
    /\ Submitted'.type = "LIMIT"
    /\ Submitted'.symbol = EngineSymbol
    /\ Submitted'.id \notin DOMAIN orderMap
    /\ Submitted'.side = heap[orderMap[lastCall.id]].side
    /\ Submitted'.price = lastCall.price
    /\ Submitted'.id \in DOMAIN orderMap'
    /\ lastCall.id \in DOMAIN orderMap'

\* C15 as stated. Modify loses time priority: after a successful
\* modifyOrder(id, p', q'), a same-side order subsequently inserted at p'
\* before the next match is matched before the modified order, that is, it is
\* queued ahead of it.
C15_ModifyLosesPriority_AsStated ==
    [][InsertedAfterModify =>
          LET own == SideMap(Submitted'.side, bids', asks')
          IN  PositionIn(own, heap', lastCall.price, Submitted'.id)
                 < PositionIn(own, heap', lastCall.price, lastCall.id)]_vars

\* C15 as amended: after a successful modifyOrder(id, p', q') the modified
\* order is queued at the tail of level p', behind every same-side order that
\* already rested there (in their old order); a same-side order subsequently
\* inserted at p' is queued behind the modified order.
C15_ModifyLosesPriority ==
    [][ /\ (CallMade /\ lastCall'.op = "modifyOrder" /\ lastCall'.ret) =>
            LET id == lastCall'.id
                sideName == heap[orderMap[id]].side
            IN  IdsIn(SideMap(sideName, bids', asks'), heap', lastCall'.price)
                   = Append(SelectSeq(IdsIn(SideMap(sideName, bids, asks), heap,
                                            lastCall'.price),
                                      LAMBDA x : x # id), id)
        /\ InsertedAfterModify =>
            LET own == SideMap(Submitted'.side, bids', asks')
            IN  /\ PositionIn(own, heap', lastCall.price, lastCall.id) > 0
                /\ PositionIn(own, heap', lastCall.price, Submitted'.id)
                      > PositionIn(own, heap', lastCall.price, lastCall.id)
      ]_vars

\* A modifyOrder has moved an order to a price where another order of its side
\* already rested: the modified order is last in that level
C15_Witness ==
    /\ lastCall.op = "modifyOrder"
    /\ lastCall.ret
    /\ lastCall.id \in DOMAIN orderMap
    /\ heap[lastCall.handle].price # lastCall.price
    /\ LET own == SideMap(heap[lastCall.handle].side, bids, asks)
       IN  /\ Len(IdsIn(own, heap, lastCall.price)) >= 2
           /\ PositionIn(own, heap, lastCall.price, lastCall.id)
                 = Len(IdsIn(own, heap, lastCall.price))

\* The book state reached from the current one by cancelOrder(id) followed by
\* addOrder of a new order with the same id, side and type as the resting
\* one, price p and quantity q: [s |-> state, ret |-> addOrder's answer]
CancelThenAdd(id, p, q) ==
    LET old == heap[orderMap[id]]
        afterCancel == OrderBook_cancelOrder(Cur, id).s
        hNew == AllocHandle(afterCancel.heap)
    IN  OrderBook_addOrder(
            WithOrder(afterCancel, hNew, Order(id, old.symbol, old.side, old.type, p, q)),
            hNew)

\* C16. modifyOrder(id, p, q) on a resting id returns true and leaves the book
\* in the state reached by cancelOrder(id) followed by addOrder of a new order
\* with the same id, side and type, price p and quantity q: that order is at
\* the tail of level p, NEW with remaining q, getOrder(id) reports p and q,
\* and the previous object is CANCELLED with remaining 0.
C16_ModifyIsCancelThenAdd ==
    [][ (/\ CallMade
         /\ lastCall'.op = "modifyOrder"
         /\ lastCall'.id \in DOMAIN orderMap)
        => LET id == lastCall'.id
               p == lastCall'.price
               q == lastCall'.quantity
               old == orderMap[id]
               own == SideMap(heap[old].side, bids', asks')
           IN  /\ lastCall'.ret
               /\ CancelThenAdd(id, p, q).ret
               /\ bids' = CancelThenAdd(id, p, q).s.bids
               /\ asks' = CancelThenAdd(id, p, q).s.asks
               /\ orderMap' = CancelThenAdd(id, p, q).s.orderMap
               /\ heap' = CancelThenAdd(id, p, q).s.heap
               /\ getOrder([orderMap |-> orderMap'], id) # Nil
               /\ getOrder([orderMap |-> orderMap'], id) # old
               /\ heap'[orderMap'[id]]
                     = Order(id, heap[old].symbol, heap[old].side, heap[old].type, p, q)
               /\ p \in DOMAIN own
               /\ own[p].orders[Len(own[p].orders)] = orderMap'[id]
               /\ IdsIn(own, heap', p)
                     = Append(SelectSeq(IdsIn(SideMap(heap[old].side, bids, asks), heap, p),
                                        LAMBDA x : x # id), id)
               /\ heap'[old].status = "CANCELLED"
               /\ heap'[old].remainingQuantity = 0
      ]_vars

\* A modifyOrder has kept an order at its price while another order rests
\* there: the order has a new object, NEW with the new quantity, at the tail
C16_Witness ==
    /\ lastCall.op = "modifyOrder"
    /\ lastCall.ret
    /\ lastCall.id \in DOMAIN orderMap
    /\ heap[lastCall.handle].price = lastCall.price
    /\ heap[lastCall.handle].status = "CANCELLED"
    /\ heap[orderMap[lastCall.id]].quantity = lastCall.quantity
    /\ heap[orderMap[lastCall.id]].quantity # heap[lastCall.handle].quantity
    /\ LET own == SideMap(heap[lastCall.handle].side, bids, asks)
       IN  /\ Len(IdsIn(own, heap, lastCall.price)) >= 2
           /\ own[lastCall.price].orders[Len(own[lastCall.price].orders)]
                 = orderMap[lastCall.id]

\* C17. Programming errors do not mutate: OrderBook::addOrder returns false
\* for an id already in the index or a symbol other than the book's, and
\* submitOrder of an order with a mismatched symbol or an id already resting
\* returns no trade; in each case the id index, both price maps and every
\* resting order, the holder of the id included, are unchanged.
C17_ErrorsDoNotMutate ==
    [][ (/\ CallMade
         /\ lastCall'.op \in {"addOrder", "submitOrder"}
         /\ \/ Submitted'.symbol # EngineSymbol
            \/ Submitted'.id \in DOMAIN orderMap)
        => /\ lastCall'.op = "addOrder" => ~lastCall'.ret
           /\ lastCall'.op = "submitOrder" => lastCall'.trades = <<>>
           /\ BookUnchanged
           /\ lastCall'.handle \notin
                 Range(orderMap') \cup LevelHandles(bids') \cup LevelHandles(asks')
      ]_vars

\* An order of the engine's symbol with quantity > 0 was offered under an id
\* that a resting order holds, and that resting order is still the one indexed
C17_Witness ==
    /\ lastCall.op \in {"addOrder", "submitOrder"}
    /\ Submitted.symbol = EngineSymbol
    /\ Submitted.quantity > 0
    /\ lastCall.id \in DOMAIN orderMap
    /\ orderMap[lastCall.id] # lastCall.handle
    /\ lastCall.handle \notin LevelHandles(bids) \cup LevelHandles(asks)

\* remaining <= original, and FILLED exactly when nothing remains of an order
\* that is not CANCELLED, for every order object of hp
StatusConsistent(hp) ==
    \A h \in DOMAIN hp :
        /\ hp[h].remainingQuantity <= hp[h].quantity
        /\ (hp[h].status = "FILLED")
              <=> (hp[h].remainingQuantity = 0 /\ hp[h].status # "CANCELLED")

\* C18. Order status invariant: for every order, at every point,
\* remaining <= original and status = FILLED iff remaining = 0 and the order
\* has not been cancelled; a resting order that a submitOrder call fills to
\* zero ends FILLED, not CANCELLED, and no order has remaining 0 with status
\* NEW or PARTIALLY_FILLED.
C18_OrderStatusInvariant ==
    [][ /\ StatusConsistent(heap')
        /\ (CallMade /\ lastCall'.op = "submitOrder") =>
              \A g \in Range(orderMap) :
                 (heap[g].remainingQuantity > 0 /\ heap'[g].remainingQuantity = 0)
                    => heap'[g].status = "FILLED"
      ]_vars

\* The trades the trade callback received during the last call, in the order
\* of its invocations
TradesCalledBack ==
    LET events == SelectSeq(lastCall.log, LAMBDA e : e.kind = "trade")
    IN  [i \in 1..Len(events) |-> events[i].trade]

MayFollow(a, b) ==
    \/ a = b
    \/ a = "NEW"
    \/ a = "PARTIALLY_FILLED" /\ b \in {"FILLED", "CANCELLED"}

\* The order-update reports of a callback log that carry that id, in order
ReportsOf(log, id) ==
    SelectSeq(log, LAMBDA e : e.kind = "orderUpdate" /\ e.id = id)

\* C20. Order-update monotonicity: the statuses of an order's successive
\* order-update reports never go backwards along
\* NEW -> PARTIALLY_FILLED -> {FILLED | CANCELLED}, and an order whose report
\* shows it filled to zero is reported FILLED, not CANCELLED.
\* In every behaviour of Spec an order object is reported at most once (as the
\* aggressor of its own submitOrder) and never after a fill, so this formula
\* holds without a case in which two reports of one order are compared.
C20_UpdateMonotonic ==
    \A id \in OrderIds :
        LET reports == ReportsOf(lastCall.log, id)
        IN  /\ \A i, j \in 1..Len(reports) :
                  i < j => MayFollow(reports[i].status, reports[j].status)
            /\ \A i \in 1..Len(reports) : reports[i].status # "CANCELLED"

\* ---- C21
StatFields ==
    {"totalTrades", "totalVolume", "totalValue", "marketOrdersMatched",
     "limitOrdersMatched"}

\* C21: over any sequence of submitOrder, cancelOrder and modifyOrder calls no
\* statistic ever decreases, and each call adds to totalTrades the number of
\* trades it returned and to totalVolume their summed quantity (cancelOrder and
\* modifyOrder return none), so both equal the count and the volume of all
\* trades returned so far.
C21_StatsMonotonic ==
    [][/\ \A f \in StatFields : stats'[f] >= stats[f]
       /\ stats'.totalTrades = stats.totalTrades + Len(lastCall'.trades)
       /\ stats'.totalVolume = stats.totalVolume + SumQty(lastCall'.trades)]_vars

\* Both order counters have moved and a later cancelOrder removed an order
C21_Witness ==
    /\ stats.limitOrdersMatched > 0
    /\ stats.marketOrdersMatched > 0
    /\ lastCall.op = "cancelOrder"
    /\ lastCall.ret
    /\ stats.totalTrades = 0

\* ------------------------------------------------------------------ risk properties
\* What the formulas below read of the last RiskManager call: riskCall holds
\* its arguments and verdict, riskCall.before the manager as the call found it.
Before == riskCall.before
Validated == riskCall.op = "validateOrder"
Traded == riskCall.op = "updatePosition"
\* the price the validator values the order at
ValuedAt ==
    IF riskCall.type = "MARKET" THEN riskCall.currentPrice
    ELSE priceToDouble(riskCall.price)
\* the position the order would lead to
Prospective ==
    getPosition(Before, riskCall.symbol).quantity
        + (IF riskCall.side = "BUY" THEN riskCall.quantity ELSE -riskCall.quantity)

\* ---- C22
RejectionCodes ==
    <<"REJECTED_ORDER_SIZE", "REJECTED_ORDER_VALUE", "REJECTED_POSITION_LIMIT",
      "REJECTED_POSITION_VALUE", "REJECTED_DAILY_LOSS", "REJECTED_DRAWDOWN">>

\* The six checks in the stated order, each TRUE when it fails
ChecksFailed ==
    <<riskCall.quantity > Before.limits.maxOrderSize,
      DGreater(DMul(Double(riskCall.quantity), ValuedAt), Before.limits.maxOrderValue),
      Abs(Prospective) > Before.limits.maxPositionSize,
      DGreater(DMul(Double(Abs(Prospective)), ValuedAt), Before.limits.maxPositionValue),
      DLess(Before.dailyPnL, DSub(Zero, Before.limits.maxDailyLoss)),
      DGreater(DSub(Before.peakEquity, Before.currentEquity), Before.limits.maxDrawdown)>>

FirstFailure(failed) ==
    IF \E i \in DOMAIN failed : failed[i]
    THEN RejectionCodes[Min({i \in DOMAIN failed : failed[i]})]
    ELSE "ACCEPTED"

C23_ValidatorPure ==
    Validated =>
        /\ limits = Before.limits
        /\ DOMAIN positions = DOMAIN Before.positions
        /\ positions = Before.positions
        /\ dailyPnL = Before.dailyPnL
        /\ peakEquity = Before.peakEquity
        /\ currentEquity = Before.currentEquity

\* ---- C24
\* The step is an updatePosition call that trades, on the side given, the
\* quantity the previous updatePosition call traded on the other side of the
\* same symbol, and that previous call found the position flat
ClosesCycle(openSide, closeSide) ==
    /\ Traded
    /\ riskCall.side = openSide
    /\ getPosition(Before, riskCall.symbol).quantity = 0
    /\ riskCall'.op = "updatePosition"
    /\ riskCall'.side = closeSide
    /\ riskCall'.symbol = riskCall.symbol
    /\ riskCall'.quantity = riskCall.quantity
    /\ opCount' = opCount + 1

\* After the cycle the position is flat and both PnL totals have grown by gain
CycleGain(gain) ==
    /\ positions'[riskCall.symbol].quantity = 0
    /\ positions'[riskCall.symbol].realizedPnL =
           DAdd(getPosition(Before, riskCall.symbol).realizedPnL, gain)
    /\ dailyPnL' = DAdd(Before.dailyPnL, gain)

\* C24: starting flat, a BUY of q at p1 followed by a SELL of q at p2 ends
\* flat and adds exactly q x (p2 - p1) to realizedPnL and to dailyPnL; a SELL
\* of q at p1 followed by a BUY of q at p2 ends flat and adds q x (p1 - p2).
C24_PnLClosure ==
    [][/\ ClosesCycle("BUY", "SELL") =>
              CycleGain(DMul(Double(riskCall.quantity),
                             DSub(priceToDouble(riskCall'.price),
                                  priceToDouble(riskCall.price))))
       /\ ClosesCycle("SELL", "BUY") =>
              CycleGain(DMul(Double(riskCall.quantity),
                             DSub(priceToDouble(riskCall.price),
                                  priceToDouble(riskCall'.price))))]_vars

\* ---- C25
\* The position of the traded symbol as the last call found it
Held == getPosition(Before, riskCall.symbol)

\* The last call traded more than an opposite exposure it found
Flipped ==
    /\ Traded
    /\ Held.quantity # 0
    /\ (Held.quantity < 0) = (riskCall.side = "BUY")
    /\ Abs(Held.quantity) < riskCall.quantity

\* PnL of closing c units of the held exposure at the trade price
ClosingPnL(c) ==
    DMul(Double(c),
         IF Held.quantity > 0
         THEN DSub(priceToDouble(riskCall.price), Held.averagePrice)
         ELSE DSub(Held.averagePrice, priceToDouble(riskCall.price)))

\* C25: a trade of qty against an opposite exposure |quantity| < qty realizes
\* PnL on c = |quantity| units, at (price - avg) for a long and (avg - price)
\* for a short, in realizedPnL and dailyPnL, and leaves the position on the
\* other side with size qty - c and averagePrice equal to the trade price.
C25_Flipping ==
    Flipped =>
        /\ positions[riskCall.symbol].realizedPnL =
               DAdd(Held.realizedPnL, ClosingPnL(Abs(Held.quantity)))
        /\ dailyPnL = DAdd(Before.dailyPnL, ClosingPnL(Abs(Held.quantity)))
        /\ positions[riskCall.symbol].quantity =
               (IF Held.quantity > 0 THEN -1 ELSE 1)
                   * (riskCall.quantity - Abs(Held.quantity))
        /\ positions[riskCall.symbol].averagePrice = priceToDouble(riskCall.price)

\* A long bought at another price is sold past zero: a non-zero amount is
\* realized and the position is short
C25_Witness ==
    /\ Flipped
    /\ Held.quantity > 0
    /\ ~IsNaN(Held.averagePrice)
    /\ Held.averagePrice # priceToDouble(riskCall.price)
    /\ positions[riskCall.symbol].quantity < 0
    /\ positions[riskCall.symbol].realizedPnL # Held.realizedPnL

\* ---- C26
LedgerChanged == riskCall.op \in {"updatePosition", "updateUnrealizedPnL", "resetDaily"}

\* C26: after every updatePosition, updateUnrealizedPnL and resetDaily call a
\* position of quantity 0 has unrealizedPnL = 0, also when the call closed a
\* position that had been marked to market; and a trade that opens an exposure
\* from a flat position sets averagePrice to its own price.
C26_FlatHasNoUnrealized ==
    /\ LedgerChanged =>
           \A sym \in DOMAIN positions :
               positions[sym].quantity = 0 => positions[sym].unrealizedPnL = Zero
    /\ (Traded /\ Held.quantity = 0 /\ riskCall.quantity > 0) =>
           positions[riskCall.symbol].averagePrice = priceToDouble(riskCall.price)

\* ---- C27
\* C27: after every updatePosition, updateUnrealizedPnL and resetDaily call
\* currentEquity equals dailyPnL plus the unrealizedPnL of all positions, and
\* peakEquity is the larger of its previous value and the new currentEquity
\* (so the maximum currentEquity has taken so far).
C27_EquityBookkeeping ==
    [][(opCount' = opCount + 1
        /\ riskCall'.op \in {"updatePosition", "updateUnrealizedPnL", "resetDaily"}) =>
           /\ currentEquity' = SumUnrealized(dailyPnL', positions', DOMAIN positions')
           /\ peakEquity' = IF DGreater(currentEquity', peakEquity)
                            THEN currentEquity' ELSE peakEquity]_vars

\* ---- C28
\* C28: resetDaily sets dailyPnL and every position's realizedPnL to 0 and
\* leaves every position's symbol, quantity, averagePrice, unrealizedPnL,
\* totalBought and totalSold, the set of positions and the limits unchanged.
C28_ResetDailyFrame ==
    riskCall.op = "resetDaily" =>
        /\ dailyPnL = Zero
        /\ limits = Before.limits
        /\ DOMAIN positions = DOMAIN Before.positions
        /\ \A sym \in DOMAIN positions :
               /\ positions[sym].realizedPnL = Zero
               /\ positions[sym] = [Before.positions[sym] EXCEPT !.realizedPnL = Zero]

\* resetDaily on a manager with realized PnL and an open, marked position
C28_Witness ==
    /\ riskCall.op = "resetDaily"
    /\ Before.dailyPnL # Zero
    /\ \E sym \in DOMAIN positions :
           /\ Before.positions[sym].realizedPnL # Zero
           /\ positions[sym].quantity # 0
           /\ positions[sym].unrealizedPnL # Zero

\* ---- C29
\* C29: every updatePosition call adds the trade quantity to the traded
\* position's total of its side (totalBought for a BUY, totalSold for a SELL)
\* and leaves the other total, whether the trade opens, increases, reduces or
\* flips the exposure.
C29_TotalsIncremented ==
    Traded =>
        /\ positions[riskCall.symbol].totalBought =
               Held.totalBought + (IF riskCall.side = "BUY" THEN riskCall.quantity ELSE 0)
        /\ positions[riskCall.symbol].totalSold =
               Held.totalSold + (IF riskCall.side = "SELL" THEN riskCall.quantity ELSE 0)

\* A SELL that flips a long that an earlier SELL had reduced
C29_Witness ==
    /\ Flipped
    /\ riskCall.side = "SELL"
    /\ Held.totalSold > 0
    /\ positions[riskCall.symbol].totalSold = Held.totalSold + riskCall.quantity
    /\ positions[riskCall.symbol].totalBought > 0

\* ---- C30
\* The last updatePosition call took the weighted-average branch: a BUY on a
\* position that was flat or long, or a SELL on one that was flat or short
Averaged ==
    /\ Traded
    /\ IF riskCall.side = "BUY" THEN Held.quantity >= 0 ELSE Held.quantity <= 0

\* C30: in every updatePosition call that opens or increases an exposure, a
\* trade of quantity 0 on a flat position included, the weighted-average
\* denominator |quantity| + trade quantity is not zero, and every position's
\* averagePrice is a well-defined value >= 0.
C30_NoDegenerateDivisor ==
    /\ Averaged => Abs(Held.quantity) + riskCall.quantity # 0
    /\ \A sym \in DOMAIN positions :
           /\ ~IsNaN(positions[sym].averagePrice)
           /\ ~DLess(positions[sym].averagePrice, Zero)

\* ---- C36
\* C36: after any sequence of RiskManager calls every position has
\* quantity = totalBought - totalSold, and each updatePosition call moves the
\* traded position's quantity by +trade quantity for a BUY aggressor side and
\* by -trade quantity for a SELL aggressor side.
C36_AccountingIdentity ==
    /\ \A sym \in DOMAIN positions :
           positions[sym].quantity = positions[sym].totalBought - positions[sym].totalSold
    /\ Traded =>
           positions[riskCall.symbol].quantity =
               Held.quantity + (IF riskCall.side = "BUY" THEN riskCall.quantity
                                ELSE -riskCall.quantity)

\* A position that has been bought and sold and is now short after a flip
C36_Witness ==
    /\ Flipped
    /\ riskCall.side = "SELL"
    /\ positions[riskCall.symbol].quantity < 0
    /\ positions[riskCall.symbol].totalBought > 0
    /\ positions[riskCall.symbol].totalSold > positions[riskCall.symbol].totalBought

\* ---- C37
\* x >= y; false when either is NaN
DGreaterEq(x, y) == ~IsNaN(x) /\ ~IsNaN(y) /\ y.n * x.d <= x.n * y.d

\* C37: after any sequence of RiskManager calls peakEquity >= currentEquity,
\* so the drawdown is never negative, and no call lowers peakEquity; resetDaily
\* in particular leaves peakEquity and the drawdown as they were.
C37_DrawdownNonNegative ==
    /\ DGreaterEq(peakEquity, currentEquity)
    /\ DGreaterEq(peakEquity, Before.peakEquity)
    /\ riskCall.op = "resetDaily" =>
           /\ peakEquity = Before.peakEquity
           /\ getCurrentDrawdown(RiskCur) = getCurrentDrawdown(Before)

\* ---- C38
\* C38: after any sequence of submitOrder, cancelOrder and modifyOrder calls
\* every order in the id index has remaining > 0 and status NEW or
\* PARTIALLY_FILLED; neither a LIMIT order of quantity 0 nor a modifyOrder
\* with newQuantity 0 leaves a zero-quantity order on the book.
C38_RestingOrdersLive ==
    \A id \in DOMAIN orderMap :
        /\ heap[orderMap[id]].remainingQuantity > 0
        /\ heap[orderMap[id]].status \in {"NEW", "PARTIALLY_FILLED"}

\* ---- C39
\* The callback invocations of the last call are: one order update per
\* returned trade, for the resting order of that trade, in trade order; one
\* order update for the submitted order; one trade event per returned trade
CallbacksInterleaved ==
    /\ Len(lastCall.log) = 2 * Len(lastCall.trades) + 1
    /\ \A i \in 1..Len(lastCall.trades) :
           /\ lastCall.log[i].kind = "orderUpdate"
           /\ lastCall.log[i].id = RestingId(Submitted.side, lastCall.trades[i])
           /\ lastCall.log[Len(lastCall.trades) + 1 + i] = TradeEvent(lastCall.trades[i])
    /\ lastCall.log[Len(lastCall.trades) + 1].kind = "orderUpdate"
    /\ lastCall.log[Len(lastCall.trades) + 1].id = Submitted.id

C40_HeadOfLevelAccess ==
    /\ DOMAIN asks # {} => getBestAskOrder(Cur) = getFrontOrder(asks[Min(DOMAIN asks)])
    /\ DOMAIN bids # {} => getBestBidOrder(Cur) = getFrontOrder(bids[Max(DOMAIN bids)])

\* ------------------------------------------------------------------ host properties
\* ---- C31
\* C31 (single-writer domain): in the host programs no two executions of
\* submitOrder on the same engine overlap, and no read of the book overlaps
\* one: at most one thread is inside a mutation, and none reads meanwhile.
C31_SingleWriter ==
    /\ Cardinality(HostWriters(hostThreads)) <= 1
    /\ HostWriters(hostThreads) # {} => HostReaders(hostThreads) = {}

\* ------------------------------------------------------------------ ring properties
\* Items the ring holds: accepted by tryPush and not yet returned by tryPop
RingHeld == Len(ringThreads.pushed) - Len(ringThreads.popped)

\* s is a prefix of t
IsPrefix(s, t) == Len(s) <= Len(t) /\ \A i \in 1..Len(s) : s[i] = t[i]

\* ---- C32
\* C32 (SPSC ring): with one producer calling tryPush and one consumer
\* calling tryPop, in every interleaving of their steps the values returned
\* by successful tryPop calls are, in order, a prefix of the values accepted
\* by successful tryPush calls; the slot the consumer is about to read has
\* been written and is not the slot the producer is about to write; the ring
\* never holds more than Size-1 items; tryPush can return false only while
\* Size-1 items are held and tryPop only while none is.
C32_RingFifo ==
    /\ IsPrefix(ringThreads.popped, ringThreads.pushed)
    /\ RingHeld \in 0..capacity
    /\ ringThreads.consumer.pc = "checked" =>
           /\ ring.buffer[ringThreads.consumer.currentHead] # Unwritten
           /\ ringThreads.producer.pc = "checked" =>
                  ringThreads.producer.currentTail # ringThreads.consumer.currentHead
    /\ ringThreads.consumer.pc = "read" =>
           ringThreads.consumer.item = ringThreads.pushed[Len(ringThreads.popped) + 1]
    /\ (ringThreads.producer.pc = "loadedTail"
           /\ RingFull(ringThreads.producer.nextTail, ring.head)) => RingHeld = capacity
    /\ (ringThreads.consumer.pc = "loadedHead"
           /\ RingEmpty(ringThreads.consumer.currentHead, ring.tail)) => RingHeld = 0

\* A tryPush about to fail on a full ring whose indices have wrapped, while
\* a tryPop is between its emptiness test and its read
C32_Witness ==
    /\ ringThreads.producer.pc = "loadedTail"
    /\ RingFull(ringThreads.producer.nextTail, ring.head)
    /\ ring.tail < ring.head
    /\ Len(ringThreads.popped) >= 1
    /\ ringThreads.consumer.pc = "checked"

\* ------------------------------------------------------------------ MPSC properties
\* The items tryPop has returned
PoppedItems == Range(mpscThreads.popped)

\* Every item the producers push
AllItems == {ItemOf(p, k) : p \in Producers, k \in 1..MaxPushes}

\* Every push has returned
AllPushesDone == mpscThreads.completed = AllItems

\* No item returned twice, none that was not pushed, those of one producer in
\* the order that producer pushed them, and no deleted node touched
MPSCDeliverySafe ==
    /\ \A i, j \in 1..Len(mpscThreads.popped) :
           i # j => mpscThreads.popped[i] # mpscThreads.popped[j]
    /\ PoppedItems \subseteq mpscThreads.exchanged
    /\ \A p \in Producers : \A k \in 2..MaxPushes :
           ItemOf(p, k) \in PoppedItems =>
               \E i, j \in 1..Len(mpscThreads.popped) :
                   /\ i < j
                   /\ mpscThreads.popped[i] = ItemOf(p, k - 1)
                   /\ mpscThreads.popped[j] = ItemOf(p, k)
    /\ ~mpscThreads.misuse

\* ---- C33
\* C33 (MPSC delivery): with several producers calling push concurrently and
\* one consumer calling tryPop, no item is returned twice, only pushed items
\* are returned, items of one producer are returned in the order it pushed
\* them, and once every push has returned a consumer that keeps calling
\* tryPop eventually has received every item.
C33_MPSCDelivery ==
    /\ []MPSCDeliverySafe
    /\ AllPushesDone ~> (PoppedItems = AllItems)

\* Everything delivered, the two producers' items interleaved: the first
\* item returned is producer 2's, then both of producer 1's, then producer 2's
C33_Witness ==
    /\ AllPushesDone
    /\ mpscThreads.popped = <<ItemOf(2, 1), ItemOf(1, 1), ItemOf(1, 2), ItemOf(2, 2)>>
    /\ mpscThreads.consumer.ret = "true"

\* ---- C34
\* C34 (MPSC emptiness): whenever a tryPop that starts now would return false
\* or isEmpty would return true, every push that has returned has had its
\* item popped.
C34_EmptyMeansEmpty ==
    (mpscThreads.consumer.pc = "idle" /\ MPSC_isEmpty(mpsc)) =>
        mpscThreads.completed \subseteq PoppedItems

\* ------------------------------------------------------------------ pool properties
\* The slots reached from node by following the links
RECURSIVE FreeFrom(_, _)
FreeFrom(node, seen) ==
    IF node \in Slots /\ node \notin seen
    THEN FreeFrom(pool.content[node], seen \cup {node})
    ELSE seen

\* The slots on the free list
FreeSlots == FreeFrom(pool.head, {})

\* The slots of the blocks created so far
CreatedSlots == UNION {BlockSlots(b) : b \in 0..(pool.blocks - 1)}

\* No allocate, deallocate or refill is in progress
PoolQuiescent == \A t \in PoolThreads : poolThreads.threads[t].pc = "idle"

\* allocate has never returned a slot that a caller held
NoSlotHandedOutTwice ==
    /\ ~poolThreads.twice
    /\ \A t, u \in PoolThreads :
           t # u => poolThreads.threads[t].holds \cap poolThreads.threads[u].holds = {}

\* Between calls every slot is held by a caller or is on the free list, and
\* none is both
NoFreeSlotDropped ==
    PoolQuiescent => /\ CreatedSlots = HeldSlots \cup FreeSlots
                     /\ HeldSlots \cap FreeSlots = {}

\* ---- C35
\* C35 (MemoryPool thread safety): under every interleaving of allocate and
\* deallocate calls from several threads, block refills included, allocate
\* never returns a slot a caller currently holds and, between calls, every
\* slot that no caller holds is on the free list.
C35_PoolThreadSafe == NoSlotHandedOutTwice /\ NoFreeSlotDropped

====
